---- MODULE Spec2Model ----
(***************************************************************************)
(* UltraDark Reader content script: the mode controller                    *)
(* (content/index.ts), the three recolouring strategies                    *)
(* (algorithms/photon-inverter.ts, dom-walker.ts, chroma-semantic.ts), the *)
(* animation-frame queue their batches run on, the document's mutation     *)
(* observers and the contrast optimizer's reply channel.                   *)
(*                                                                         *)
(* Every operation of the source is an operator from a world record to a   *)
(* world record; an action commits the world its handler ends in.          *)
(*                                                                         *)
(* Abstractions:                                                           *)
(*  - An element's inline style is tracked through its `color` property,   *)
(*    which both traversal strategies write on every element they process  *)
(*    (computed colour is always an rgb() string); inline[e] names the     *)
(*    strategy that wrote it last, or "none".                              *)
(*  - The elements are the root, the body and n content elements under    *)
(*    body, in document order "1", "2", ...; elements are only added.      *)
(*  - Wall-clock time is kept per Chroma-Semantic cycle as the time        *)
(*    elapsed since its apply started.                                     *)
(***************************************************************************)
EXTENDS Integers, Sequences, FiniteSets, TLC

\* ---------------------------------------------------------------- bounds
\* Content elements under body the document can hold.
MaxElems == 2
\* Elements processed per DOM Walker frame (BATCH_SIZE, 500 in the source).
DwBatchSize == 1
\* Elements processed per Chroma-Semantic frame (BATCH_SIZE, 300 in the source).
CsBatchSize == 2
\* Frame callbacks that may be scheduled at once.
MaxPending == 2
\* Milliseconds by which one passage of time advances a cycle's elapsed time.
TimeStep == 250
\* Worker replies that may be in flight at once.
MaxReplies == 1
\* Deepest nesting of an element under the root.
MaxDepth == 9
\* Settings reads of the content script that may be in flight at once.
MaxReads == 2
\* Settings writers that may be between their read and their write at once.
MaxWriters == 2
\* Settings writers that run in all.
MaxWrites == 3
\* Style sheets a document holds.
MaxSheets == 3
\* Host names the tabs' URLs are drawn from.
MaxHosts == 7
\* Rounds of mutation-record delivery followed after one handler.
MaxRounds == 2
\* Mutation records one insertion by the page may produce.
MaxRecords == 2
\* Milliseconds by which the popup's clock advances at most in one step.
Quantum == 125
\* Milliseconds the popup stays open.
MaxTime == 750
\* Times one slider is moved while the popup is open.
MaxCalls == 3
\* Deeply nested div elements a page can hold.
MaxDivs == 2
\* Deeply nested div elements the detector samples (5 in the source).
SampleDivs == 1

\* ------------------------------------------------------ program constants
PERFORMANCE_THRESHOLD == 200
WAIT == 250
DEFAULT_CONTRAST == 110
MIN_CONTRAST == 50
MAX_CONTRAST == 200

Modes == {"photon-inverter", "dom-walker", "chroma-semantic"}
NoMode == "none"
Tri == {"unset", "true", "false"}

\* Elements of the document, in document order.
ContentName(i) == ToString(i)
Content == {ContentName(i) : i \in 1..MaxElems}
AllElems == {"html", "body"} \cup Content

VARIABLES
  doc,     \* the document: style elements, root attributes, inline styles, observers
  ctl,     \* content/index.ts module state
  dw,      \* dom-walker.ts module state
  frames,  \* requestAnimationFrame callbacks, in registration order
  inbox,   \* replies of the optimizer worker not yet delivered
  hist,    \* history: the strategy calls of the last handler, and what they leave open
  err,     \* TRUE once a handler has raised an exception
  calc,    \* the colour computation observed for one element: function, input, result
  popup,   \* the popup's debounced slider handlers: clock, timers, their history
  store    \* storage.sync: the settings record, the reads and writers in flight

vars == <<doc, ctl, dw, frames, inbox, hist, err, calc, popup, store>>

World == [doc |-> doc, ctl |-> ctl, dw |-> dw, frames |-> frames,
          inbox |-> inbox, hist |-> hist, err |-> err]

NoCalc == [fn |-> "none"]
AbsentStyle == [present |-> FALSE, invert |-> FALSE, contrast |-> 0]
NoWorker == [created |-> FALSE, mode |-> NoMode]

\* ---------------------------------------------------------------- history
\* A handler starts with an empty call log.
Begin(w) == [w EXCEPT !.hist.calls = <<>>, !.hist.raised = FALSE]

\* An exception is thrown: the handler ends where it is.
Raise(w) == [w EXCEPT !.err = TRUE, !.hist.raised = TRUE]

\* Record a call of a strategy's apply or remove (or of a controller operation),
\* together with the strategies whose apply had not been followed by their
\* remove when the call was made.
Log(w, op, strat) ==
  LET entry == [op |-> op, strat |-> strat, open |-> w.hist.open]
      open2 == IF op = "apply" THEN w.hist.open \cup {strat}
               ELSE IF op = "remove" THEN w.hist.open \ {strat}
               ELSE w.hist.open
  IN [w EXCEPT !.hist.calls = Append(@, entry), !.hist.open = open2]

\* ------------------------------------------------------------- style elements
\* doc.tags counts, for each id the engine gives its style elements, the
\* elements with that id attached to the document.
StyleIds == {"udr-style", "dark-theme-snippet", "udr-preinject"}

\* parent.appendChild (or prepend) of a style element with the id.
Attach(w, id) == [w EXCEPT !.doc.tags[id] = @ + 1]

\* parentNode.removeChild of the element getElementById finds for the id.
Detach(w, id) == [w EXCEPT !.doc.tags[id] = @ - 1]

\* ------------------------------------------------- algorithms/photon-inverter.ts
\* applyPhotonInverter: create the dark-theme-snippet style element under head
\* unless it exists, set its text, mark the root with the mode.
applyPhotonInverter(w) ==
  IF ~w.doc.snippet /\ ~w.doc.head
  THEN w
  ELSE LET w1 == IF w.doc.snippet THEN w ELSE Attach(w, "dark-theme-snippet")
       IN [w1 EXCEPT !.doc.snippet = TRUE, !.doc.attrMode = "photon-inverter"]

\* removePhotonInverter without its parentNode guard: removeChild raises when the
\* element is not attached.
removePhotonInverterUnguarded(w) ==
  LET w1 == IF w.doc.snippet THEN Detach(w, "dark-theme-snippet") ELSE w
  IN [w1 EXCEPT !.doc.snippet = FALSE, !.err = @ \/ ~w.doc.snippet]

\* removePhotonInverter: remove the dark-theme-snippet element if it is attached.
removePhotonInverter(w) ==
  IF w.doc.snippet
  THEN [Detach(w, "dark-theme-snippet") EXCEPT !.doc.snippet = FALSE]
  ELSE w

\* ------------------------------------------------------ algorithms/dom-walker.ts
\* The elements applyDomWalker's TreeWalker collects: body, then its descendants.
DwElements(n) == <<"body">> \o [i \in 1..n |-> ContentName(i)]

Min(a, b) == IF a < b THEN a ELSE b

\* Colour arithmetic of dom-walker.ts and chroma-semantic.ts.
\* Colours are records of three channels in 0..255.  The source computes in
\* double precision; the model computes in exact rationals, and Math.pow,
\* Math.cos and Math.sin are tabulated to four decimals.
Rgb(r, g, b) == [r |-> r, g |-> g, b |-> b]

Abs(x) == IF x < 0 THEN -x ELSE x
Max(a, b) == IF a > b THEN a ELSE b
Max3(c) == Max(c.r, Max(c.g, c.b))
Min3(c) == Min(c.r, Min(c.g, c.b))

RECURSIVE Gcd(_, _)
Gcd(a, b) == IF b = 0 THEN a ELSE Gcd(b, a % b)

\* The rational n/d (d > 0) in lowest terms, and arithmetic on rationals.
Rat(n, d) == LET g == Gcd(Abs(n), d) IN [n |-> n \div g, d |-> d \div g]
RInt(i) == [n |-> i, d |-> 1]
RAdd(x, y) ==
  LET g == Gcd(x.d, y.d)
  IN Rat(x.n * (y.d \div g) + y.n * (x.d \div g), (x.d \div g) * y.d)
RSub(x, y) == RAdd(x, [n |-> -y.n, d |-> y.d])
RMul(x, y) ==
  LET g1 == Gcd(Abs(x.n), y.d)
      g2 == Gcd(Abs(y.n), x.d)
  IN Rat((x.n \div g1) * (y.n \div g2), (x.d \div g2) * (y.d \div g1))
RLt(x, y) ==
  LET g == Gcd(x.d, y.d)
  IN x.n * (y.d \div g) < y.n * (x.d \div g)
RMin(x, y) == IF RLt(x, y) THEN x ELSE y
RMax(x, y) == IF RLt(x, y) THEN y ELSE x

\* Math.round(x * 255) for a rational x >= 0.
Round255(x) == (2 * 255 * x.n + x.d) \div (2 * x.d)

\* rgbToHsl: h in degrees, s and l in percent.
rgbToHsl(c) ==
  LET max == Max3(c)
      min == Min3(c)
      l == Rat(100 * (max + min), 510)
  IN IF max = min THEN [h |-> RInt(0), s |-> RInt(0), l |-> l]
     ELSE LET d == max - min
              s == IF max + min > 255 THEN Rat(100 * d, 510 - max - min)
                   ELSE Rat(100 * d, max + min)
              h == IF max = c.r
                     THEN Rat(360 * ((c.g - c.b) + (IF c.g < c.b THEN 6 * d ELSE 0)), 6 * d)
                   ELSE IF max = c.g THEN Rat(360 * ((c.b - c.r) + 2 * d), 6 * d)
                   ELSE Rat(360 * ((c.r - c.g) + 4 * d), 6 * d)
          IN [h |-> h, s |-> s, l |-> l]

\* hue2rgb of hslToRgb.
hue2rgb(p, q, t0) ==
  LET t == IF RLt(t0, RInt(0)) THEN RAdd(t0, RInt(1))
           ELSE IF RLt(RInt(1), t0) THEN RSub(t0, RInt(1))
           ELSE t0
  IN IF RLt(t, Rat(1, 6)) THEN RAdd(p, RMul(RMul(RSub(q, p), RInt(6)), t))
     ELSE IF RLt(t, Rat(1, 2)) THEN q
     ELSE IF RLt(t, Rat(2, 3))
       THEN RAdd(p, RMul(RMul(RSub(q, p), RSub(Rat(2, 3), t)), RInt(6)))
     ELSE p

hslToRgb(hd, sp, lp) ==
  LET h == RMul(hd, Rat(1, 360))
      s == RMul(sp, Rat(1, 100))
      l == RMul(lp, Rat(1, 100))
  IN IF s = RInt(0) THEN Rgb(Round255(l), Round255(l), Round255(l))
     ELSE LET q == IF RLt(l, Rat(1, 2)) THEN RMul(l, RAdd(RInt(1), s))
                   ELSE RSub(RAdd(l, s), RMul(l, s))
              p == RSub(RMul(RInt(2), l), q)
          IN Rgb(Round255(hue2rgb(p, q, RAdd(h, Rat(1, 3)))),
                 Round255(hue2rgb(p, q, h)),
                 Round255(hue2rgb(p, q, RSub(h, Rat(1, 3)))))

\* invertLightness with every colour treated as a background.
invertLightnessAsBackground(rgb, isBackground) ==
  LET hsl == rgbToHsl(rgb)
      l == IF RLt(RInt(50), hsl.l) THEN RSub(RInt(100), hsl.l) ELSE hsl.l
  IN hslToRgb(hsl.h, hsl.s, l)

\* invertLightness: the rgb(...) colour it returns.
invertLightness(rgb, isBackground) ==
  LET hsl == rgbToHsl(rgb)
      l == IF isBackground /\ RLt(RInt(50), hsl.l) THEN RSub(RInt(100), hsl.l)
           ELSE IF ~isBackground /\ RLt(hsl.l, RInt(50)) THEN RSub(RInt(100), hsl.l)
           ELSE hsl.l
  IN hslToRgb(hsl.h, hsl.s, l)

\* ((c + 0.055) / 1.055) ^ 2.4, or c / 12.92 at the dark end, for a channel
\* value v = 255 c, in ten-thousandths; Linear[v + 1] is the value for v.
Linear ==
  <<
         0,     3,     6,     9,    12,    15,    18,    21,    24,    27,    30,    33,    37,    40,    44,    48,
        52,    56,    60,    65,    70,    75,    80,    86,    91,    97,   103,   110,   116,   123,   130,   137,
       144,   152,   160,   168,   176,   185,   194,   203,   212,   222,   232,   242,   252,   262,   273,   284,
       296,   307,   319,   331,   343,   356,   369,   382,   395,   409,   423,   437,   452,   467,   482,   497,
       513,   529,   545,   561,   578,   595,   612,   630,   648,   666,   685,   704,   723,   742,   762,   782,
       802,   823,   844,   865,   887,   908,   931,   953,   976,   999,  1022,  1046,  1070,  1095,  1119,  1144,
      1170,  1195,  1221,  1248,  1274,  1301,  1329,  1356,  1384,  1413,  1441,  1470,  1500,  1529,  1559,  1590,
      1620,  1651,  1683,  1714,  1746,  1779,  1812,  1845,  1878,  1912,  1946,  1981,  2016,  2051,  2086,  2122,
      2159,  2195,  2232,  2270,  2307,  2346,  2384,  2423,  2462,  2502,  2542,  2582,  2623,  2664,  2705,  2747,
      2789,  2831,  2874,  2918,  2961,  3005,  3050,  3095,  3140,  3185,  3231,  3278,  3325,  3372,  3419,  3467,
      3515,  3564,  3613,  3663,  3712,  3763,  3813,  3864,  3916,  3968,  4020,  4072,  4125,  4179,  4233,  4287,
      4342,  4397,  4452,  4508,  4564,  4621,  4678,  4735,  4793,  4851,  4910,  4969,  5029,  5089,  5149,  5210,
      5271,  5333,  5395,  5457,  5520,  5583,  5647,  5711,  5776,  5841,  5906,  5972,  6038,  6105,  6172,  6240,
      6308,  6376,  6445,  6514,  6584,  6654,  6724,  6795,  6867,  6939,  7011,  7084,  7157,  7231,  7305,  7379,
      7454,  7529,  7605,  7682,  7758,  7835,  7913,  7991,  8070,  8148,  8228,  8308,  8388,  8469,  8550,  8632,
      8714,  8796,  8879,  8963,  9047,  9131,  9216,  9301,  9387,  9473,  9560,  9647,  9734,  9823,  9911, 10000
  >>

\* getRelativeLuminance, in units of 10^-8.
getRelativeLuminance(c) ==
  2126 * Linear[c.r + 1] + 7152 * Linear[c.g + 1] + 722 * Linear[c.b + 1]

\* getContrastRatio(l1, l2) < 4.5.
ContrastBelowFloor(l1, l2) ==
  LET lighter == Max(l1, l2)
      darker == Min(l1, l2)
  IN 2 * (lighter + 5000000) < 9 * (darker + 5000000)

\* Math.sin at whole degrees from 0 to 90, in ten-thousandths.
SinTable ==
  <<
         0,   175,   349,   523,   698,   872,  1045,  1219,  1392,  1564,  1736,  1908,  2079,
      2250,  2419,  2588,  2756,  2924,  3090,  3256,  3420,  3584,  3746,  3907,  4067,  4226,
      4384,  4540,  4695,  4848,  5000,  5150,  5299,  5446,  5592,  5736,  5878,  6018,  6157,
      6293,  6428,  6561,  6691,  6820,  6947,  7071,  7193,  7314,  7431,  7547,  7660,  7771,
      7880,  7986,  8090,  8192,  8290,  8387,  8480,  8572,  8660,  8746,  8829,  8910,  8988,
      9063,  9135,  9205,  9272,  9336,  9397,  9455,  9511,  9563,  9613,  9659,  9703,  9744,
      9781,  9816,  9848,  9877,  9903,  9925,  9945,  9962,  9976,  9986,  9994,  9998, 10000
  >>

\* Math.sin and Math.cos at a whole number of degrees in 0..359.
Sin(deg) ==
  IF deg <= 90 THEN SinTable[deg + 1]
  ELSE IF deg <= 180 THEN SinTable[180 - deg + 1]
  ELSE IF deg <= 270 THEN -SinTable[deg - 180 + 1]
  ELSE -SinTable[360 - deg + 1]
Cos(deg) == Sin((deg + 90) % 360)

\* rgbToLCH: l and c in percent, h in degrees.
rgbToLCH(c) ==
  LET max == Max3(c)
      min == Min3(c)
      d == max - min
      h == IF d = 0 THEN RInt(0)
           ELSE IF max = c.r
             THEN Rat(60 * ((c.g - c.b) + (IF c.g < c.b THEN 6 * d ELSE 0)), d)
           ELSE IF max = c.g THEN Rat(60 * ((c.b - c.r) + 2 * d), d)
           ELSE Rat(60 * ((c.r - c.g) + 4 * d), d)
  IN [l |-> Rat(100 * (max + min), 510), c |-> Rat(100 * d, 255), h |-> h]

\* lchToRGB; the hue is taken to the nearest whole degree.
lchToRGB(l, c, h) ==
  LET deg == ((2 * h.n + h.d) \div (2 * h.d)) % 360
      a == RMul(Rat(Cos(deg), 10000), RMul(c, Rat(1, 100)))
      b == RMul(Rat(Sin(deg), 10000), RMul(c, Rat(1, 100)))
      y == RMul(l, Rat(1, 100))
      Clamp01(x) == RMax(RInt(0), RMin(RInt(1), x))
  IN Rgb(Round255(Clamp01(RAdd(y, a))),
         Round255(Clamp01(y)),
         Round255(Clamp01(RSub(y, b))))

\* DARK_GRAY_PALETTE and TEXT_COLORS.
DARK_GRAY_PALETTE ==
  <<Rgb(18, 18, 18), Rgb(26, 26, 26), Rgb(34, 34, 34), Rgb(42, 42, 42), Rgb(44, 44, 44)>>

\* TEXT_COLORS with a dim grey for body text.
TextColorDim(role) ==
  IF role = "heading" THEN Rgb(245, 245, 245)
  ELSE IF role = "link" THEN Rgb(108, 182, 255)
  ELSE Rgb(64, 64, 64)

\* The text colour applySemanticStyle assigns for a role (computed.color is
\* never empty).
TextColor(role) ==
  IF role = "heading" THEN Rgb(245, 245, 245)
  ELSE IF role = "link" THEN Rgb(108, 182, 255)
  ELSE Rgb(224, 224, 224)

\* No lightness was lifted.
NoLift == RInt(-1)

\* applySemanticStyle on an element not yet processed: the inline background
\* (if the element had one), the inline colour, and the lightness the colour
\* was lifted to when the contrast was below the floor.
applySemanticStyle(role, depth, hasBackground) ==
  LET paletteIndex == Min(depth \div 2, Len(DARK_GRAY_PALETTE) - 1)
      semanticBg == DARK_GRAY_PALETTE[paletteIndex + 1]
      fgRgb == TextColor(role)
      bgLum == getRelativeLuminance(semanticBg)
      fgLum == getRelativeLuminance(fgRgb)
  IN IF ContrastBelowFloor(bgLum, fgLum)
     THEN LET lch == rgbToLCH(fgRgb)
              l == RMin(RInt(95), RAdd(lch.l, RInt(20)))
          IN [semanticBg |-> semanticBg, hasBackground |-> hasBackground,
              color |-> lchToRGB(l, lch.c, lch.h), lifted |-> l]
     ELSE [semanticBg |-> semanticBg, hasBackground |-> hasBackground,
           color |-> fgRgb, lifted |-> NoLift]

\* element.style.<property> = value by a traversal strategy.  A style write on
\* body or below it queues an attribute record for the observers connected with
\* attributes: true, attributeFilter ['style', 'class'] (Chroma-Semantic's; DOM
\* Walker's observe childList only); a record of an attribute change has no
\* added nodes.
SetInline(w, el, kind) ==
  LET w1 == [w EXCEPT !.doc.inline[el] = kind]
  IN IF el # "html" /\ \E i \in DOMAIN w.doc.observers : w.doc.observers[i] = "cs"
     THEN [w1 EXCEPT !.hist.records =
             Append(@, [type |-> "attributes", target |-> el, added |-> <<>>])]
     ELSE w1

\* processBatch without its check of processedElements.
RECURSIVE processBatchUnchecked(_, _, _, _)
processBatchUnchecked(w, elements, from, to) ==
  IF from > to THEN w
  ELSE LET el == elements[from]
           w1 == [SetInline(w, el, "dw") EXCEPT
                    !.dw.processedElements = @ \cup {el},
                    !.hist.styled[el] = @ + 1]
       IN processBatchUnchecked(w1, elements, from + 1, to)

\* processBatch: style elements[from..to] (1-based) unless already processed.
\* hist.styled counts, per element, the times it was styled since the last
\* resetDomWalker.
RECURSIVE processBatch(_, _, _, _)
processBatch(w, elements, from, to) ==
  IF from > to THEN w
  ELSE LET el == elements[from]
           w1 == IF el \in w.dw.processedElements THEN w
                 ELSE [SetInline(w, el, "dw") EXCEPT
                         !.dw.processedElements = @ \cup {el},
                         !.hist.styled[el] = @ + 1]
       IN processBatch(w1, elements, from + 1, to)

\* MutationObserver.disconnect() for the observers of one strategy.
Disconnect(observers, kind) == SelectSeq(observers, LAMBDA k : k # kind)

resetDomWalker(w) ==
  LET cleared == [e \in AllElems |->
                    IF e \in w.dw.processedElements THEN "none" ELSE w.doc.inline[e]]
      w1 == [w EXCEPT !.doc.inline = cleared, !.dw.processedElements = {},
                      !.hist.styled = [e \in AllElems |-> 0]]
  IN IF w1.dw.mutationObserver
     THEN [w1 EXCEPT !.doc.observers = Disconnect(@, "dw"),
                     !.dw.mutationObserver = FALSE]
     ELSE w1

\* A frame callback: the closure of one traversal cycle.
Closure(kind, n, idx, elapsed, body) ==
  [k |-> kind, n |-> n, idx |-> idx, elapsed |-> elapsed, body |-> body]

requestAnimationFrame(w, c) == [w EXCEPT !.frames = Append(@, c)]

\* applyDomWalker: reset, collect the elements, schedule the first batch, mark the
\* root.  document.createTreeWalker throws a TypeError when document.body is null.
applyDomWalker(w) ==
  LET w1 == Log(resetDomWalker(w), "remove", "dom-walker")
      w2 == Log(w1, "apply", "dom-walker")
      w3 == requestAnimationFrame(w2, Closure("dw", w2.doc.n, 0, 0, TRUE))
  IN IF ~w.doc.body THEN Raise(w2)
     ELSE [w3 EXCEPT !.doc.attrMode = "dom-walker"]

\* processNextBatch with currentIndex <= elements.length as its test.
dwProcessNextBatchOneMore(w, c) ==
  LET elements == DwElements(c.n)
      w1 == processBatch(w, elements, c.idx + 1, Min(c.idx + DwBatchSize, Len(elements)))
      currentIndex == c.idx + DwBatchSize
  IN IF currentIndex <= Len(elements)
     THEN requestAnimationFrame(w1, [c EXCEPT !.idx = currentIndex])
     ELSE [w1 EXCEPT !.doc.observers = Append(Disconnect(@, "dw"), "dw"),
                     !.dw.mutationObserver = TRUE]

\* processNextBatch of applyDomWalker, for the cycle c.
dwProcessNextBatch(w, c) ==
  LET elements == DwElements(c.n)
      w1 == processBatch(w, elements, c.idx + 1, Min(c.idx + DwBatchSize, Len(elements)))
      currentIndex == c.idx + DwBatchSize
  IN IF currentIndex < Len(elements)
     THEN requestAnimationFrame(w1, [c EXCEPT !.idx = currentIndex])
     ELSE [w1 EXCEPT !.doc.observers = Append(Disconnect(@, "dw"), "dw"),
                     !.dw.mutationObserver = TRUE]

\* The DOM Walker observer's callback; newElements lists, for every added node
\* of the mutation records, the node and then its descendants.
dwMutationCallback(w, newElements) == processBatch(w, newElements, 1, Len(newElements))

\* ------------------------------------------------- algorithms/chroma-semantic.ts
\* querySelectorAll('*'): the root, body (if the document has one) and body's
\* descendants.
CsElements(n, body) ==
  IF body THEN <<"html", "body">> \o [i \in 1..n |-> ContentName(i)] ELSE <<"html">>

\* applySemanticStyle on elements[from..to]; no element occurs twice in a cycle's list.
RECURSIVE csStyleRange(_, _, _, _)
csStyleRange(w, elements, from, to) ==
  IF from > to THEN w
  ELSE csStyleRange(SetInline(w, elements[from], "cs"), elements, from + 1, to)

\* A style sheet of document.styleSheets: whether its cssRules can be read (a
\* cross-origin sheet throws a SecurityError on the access) and its rules; a
\* rule is a CSSStyleRule or another rule, with the declarations of its style.
Sheet(readable, rules) == [readable |-> readable, rules |-> rules]
CssRule(isStyleRule, style) == [isStyleRule |-> isStyleRule, style |-> style]
Declaration(prop, value) == [prop |-> prop, value |-> value]

\* prop.startsWith('--'), on the property names the sheets use.
StartsWithDashes(prop) == prop \in {"--bg", "--accent", "--gap"}

\* value.match(/#[0-9a-f]{3,6}/i) || value.match(/rgb/i), on the values the
\* sheets use.
MatchesColour(value) == value \in {"#fff", "#1A1a1a", "rgb(0, 0, 0)", "RGBA(1, 2, 3, 0.5)"}

\* The loop over one rule's declarations: the colour variables it counts.
RECURSIVE CountStyle(_)
CountStyle(style) ==
  IF style = <<>> THEN 0
  ELSE (IF StartsWithDashes(Head(style).prop) /\ MatchesColour(Head(style).value)
        THEN 1 ELSE 0) + CountStyle(Tail(style))

\* The loop over one sheet's rules.
RECURSIVE CountRules(_)
CountRules(rules) ==
  IF rules = <<>> THEN 0
  ELSE (IF Head(rules).isStyleRule THEN CountStyle(Head(rules).style) ELSE 0)
       + CountRules(Tail(rules))

\* The loop over the sheets from the i-th on without its inner try: the
\* exception reaches the outer catch, which ends the loop.
RECURSIVE ScanSheetsOuterCatch(_, _, _)
ScanSheetsOuterCatch(sheets, i, acc) ==
  IF i > Len(sheets) THEN acc
  ELSE IF ~sheets[i].readable THEN acc
  ELSE ScanSheetsOuterCatch(sheets, i + 1,
                            [acc EXCEPT !.modified = @ + CountRules(sheets[i].rules),
                                        !.scanned = @ \cup {i}])

\* The loop over the sheets from the i-th on: the inner catch skips a sheet
\* whose rules cannot be read.  acc holds the count so far and the sheets
\* whose rules were read.
RECURSIVE ScanSheets(_, _, _)
ScanSheets(sheets, i, acc) ==
  IF i > Len(sheets) THEN acc
  ELSE IF ~sheets[i].readable THEN ScanSheets(sheets, i + 1, acc)
  ELSE ScanSheets(sheets, i + 1,
                  [acc EXCEPT !.modified = @ + CountRules(sheets[i].rules),
                              !.scanned = @ \cup {i}])

\* processCSSVariables: the count it returns, the sheets it read, and whether
\* an exception leaves it (none does: both catch clauses end normally).
processCSSVariables(sheets) ==
  ScanSheets(sheets, 1, [modified |-> 0, scanned |-> {}, threw |-> FALSE])

\* What applyChromaSemantic does after processCSSVariables: it goes on to
\* checkPerformance unless an exception left the call.
AfterIndexing(result) == IF result.threw THEN "thrown" ELSE "checkPerformance"

\* checkPerformance: TRUE when the budget is exceeded.
OverBudget(elapsed) == elapsed > PERFORMANCE_THRESHOLD

\* The body of checkPerformance's fallback branch: it applies the Photon
\* Inverter and sends nothing to the orchestrator (hist.advisories, the number
\* of advisory events emitted, stays as it is; the notification is a TODO).
csFallback(w) ==
  LET w1 == [Log(w, "fallback", "chroma-semantic") EXCEPT !.hist.fellBack = TRUE]
  IN applyPhotonInverter(Log(w1, "apply", "photon-inverter"))

\* applyChromaSemantic; indexing is the time processCSSVariables took.
applyChromaSemantic(w, indexing) ==
  LET w1 == Log(w, "apply", "chroma-semantic")
  IN IF OverBudget(indexing)
     THEN csFallback(w1)
     ELSE LET w2 == requestAnimationFrame(Log(w1, "traverse", "chroma-semantic"),
                                          Closure("cs", w1.doc.n, 0, indexing, w1.doc.body))
          IN [w2 EXCEPT !.doc.attrMode = "chroma-semantic"]

\* processNextBatch whose budget check does not end the callback.
csProcessNextBatchNoReturn(w, c, took) ==
  LET w0 == IF OverBudget(c.elapsed) THEN csFallback(w) ELSE w
      elements == CsElements(c.n, c.body)
      w1 == csStyleRange(w0, elements, c.idx + 1,
                         Min(c.idx + CsBatchSize, Len(elements)))
      currentIndex == c.idx + CsBatchSize
  IN IF currentIndex < Len(elements)
     THEN requestAnimationFrame(w1, [c EXCEPT !.idx = currentIndex,
                                              !.elapsed = c.elapsed + took])
     ELSE [w1 EXCEPT !.doc.observers = Append(@, "cs")]

\* processNextBatch of applyChromaSemantic, for the cycle c; took is the time
\* the batch's loop takes.  The budget is checked on entry only; a batch that
\* ends over budget is recorded in the history.
csProcessNextBatch(w, c, took) ==
  IF OverBudget(c.elapsed)
  THEN csFallback(w)
  ELSE LET elements == CsElements(c.n, c.body)
           w1 == csStyleRange(w, elements, c.idx + 1,
                              Min(c.idx + CsBatchSize, Len(elements)))
           currentIndex == c.idx + CsBatchSize
           elapsed == c.elapsed + took
           w2 == IF OverBudget(elapsed) THEN Log(w1, "overrun", "chroma-semantic") ELSE w1
       IN IF currentIndex < Len(elements)
          THEN requestAnimationFrame(w2, [c EXCEPT !.idx = currentIndex,
                                                   !.elapsed = elapsed])
          ELSE IF ~w2.doc.body THEN Raise(w2)
          ELSE [w2 EXCEPT !.doc.observers = Append(@, "cs")]

\* The Chroma-Semantic observer's callback, for the same list.
csMutationCallback(w, newElements) == csStyleRange(w, newElements, 1, Len(newElements))

\* The list the observer's callback builds from the records it is given with the
\* records' targets taken for added nodes.
RECURSIVE AddedElementsWithTargets(_)
AddedElementsWithTargets(records) ==
  IF records = <<>> THEN <<>>
  ELSE <<Head(records).target>> \o AddedElementsWithTargets(Tail(records))

\* The list the observer's callback builds from the records it is given: the
\* added nodes of every record.
RECURSIVE AddedElements(_)
AddedElements(records) ==
  IF records = <<>> THEN <<>>
  ELSE Head(records).added \o AddedElements(Tail(records))

\* The Chroma-Semantic observer's callback on records of attribute changes;
\* hist.watched counts the elements it passes to applySemanticStyle.
csObserverCallback(w, records) ==
  LET newElements == AddedElements(records)
      w1 == [Log(w, "records", "chroma-semantic") EXCEPT
               !.hist.watched = @ + Len(newElements)]
  IN csMutationCallback(w1, newElements)

\* resetChromaSemantic is imported by content/index.ts; its body is not in the
\* sources.  From the design: remove() reverses all inline styles the engine
\* wrote and detaches the watcher.
resetChromaSemantic(w) ==
  [w EXCEPT !.doc.inline = [e \in AllElems |-> IF @[e] = "cs" THEN "none" ELSE @[e]],
            !.doc.observers = Disconnect(@, "cs")]

\* ------------------------------------------------------- utils/dark-detection.ts
\* What the detector reads of a page: whether the document has a body yet, the
\* content of its first color-scheme meta ("absent" without one), the class
\* names and the data-theme and theme attributes of the root and of body ("" for
\* an attribute that is not set), their computed color-scheme, body's computed
\* background, the computed backgrounds of the div elements nested deeper than
\* three levels, and whether (prefers-color-scheme: dark) matches.
\* A computed background-color: rgb(r, g, b) when a is 1, rgba(r, g, b, a) otherwise.
Rgba(r, g, b, a) == [r |-> r, g |-> g, b |-> b, a |-> a]

\* 'rgba(0, 0, 0, 0)', the computed value of a transparent background.
Transparent == Rgba(0, 0, 0, 0)

\* /dark|night|black|theme-dark/i.test(s), on the class names the pages use.
TestDarkClass(s) == s \in {"dark-mode", "Night", "blackboard", "theme-dark"}

\* /dark|night|black/i.test(s), on the attribute values the pages use.
TestDarkTheme(s) == s \in {"dark", "Night", "black"}

\* /dark/i.test(s), on the color-scheme values the pages use.
TestDark(s) == s \in {"dark", "light dark"}

\* a || b on attribute values: b when a is null or empty.
OrElse(a, b) == IF a # "" THEN a ELSE b

hasExplicitDarkThemeMarkers(p) ==
  IF ~p.hasBody THEN FALSE
  ELSE LET htmlTheme == OrElse(p.htmlDataTheme, p.htmlTheme)
           bodyTheme == OrElse(p.bodyDataTheme, p.bodyTheme)
       IN \/ (p.meta # "absent" /\ TestDark(p.meta))
          \/ TestDarkClass(p.htmlClass)
          \/ TestDarkClass(p.bodyClass)
          \/ (htmlTheme # "" /\ TestDarkTheme(htmlTheme))
          \/ (bodyTheme # "" /\ TestDarkTheme(bodyTheme))
          \/ (p.rootColorScheme # "" /\ TestDark(p.rootColorScheme))
          \/ (p.bodyColorScheme # "" /\ TestDark(p.bodyColorScheme))

\* rgbToLuminance, in units of 10^-8 (the formula of getRelativeLuminance).
rgbToLuminance(c) ==
  2126 * Linear[c.r + 1] + 7152 * Linear[c.g + 1] + 722 * Linear[c.b + 1]

\* The luminances getAverageBackgroundLuminance pushes for body and for the
\* sampled divs (picked holds the indices Math.random selected), in order.
LuminanceSamples(p, picked) ==
  LET bodySample == IF p.bodyBg = Transparent THEN <<>> ELSE <<rgbToLuminance(p.bodyBg)>>
      Opaque(i) == i \in picked /\ p.divs[i] # Transparent
      kept == SelectSeq([i \in DOMAIN p.divs |-> i], Opaque)
  IN bodySample \o [j \in DOMAIN kept |-> rgbToLuminance(p.divs[kept[j]])]

RECURSIVE Sum(_)
Sum(seq) == IF seq = <<>> THEN 0 ELSE Head(seq) + Sum(Tail(seq))

\* 0.2 in units of 10^-8.
DARK_THRESHOLD == 20000000

\* avgLuminance < threshold, for the samples getAverageBackgroundLuminance
\* averages (1 without a body or without samples).
AverageBelow(p, picked, threshold) ==
  IF ~p.hasBody THEN 100000000 < threshold
  ELSE LET samples == LuminanceSamples(p, picked)
       IN IF samples # <<>> THEN Sum(samples) < threshold * Len(samples)
          ELSE 100000000 < threshold

siteDeclaresColorScheme(p) == p.prefersDark

\* isAlreadyDarkTheme without the system-preference check.
isAlreadyDarkThemeNoPreference(p, picked) ==
  \/ hasExplicitDarkThemeMarkers(p)
  \/ AverageBelow(p, picked, DARK_THRESHOLD)

isAlreadyDarkTheme(p, picked) ==
  IF hasExplicitDarkThemeMarkers(p) THEN TRUE
  ELSE IF AverageBelow(p, picked, DARK_THRESHOLD) THEN TRUE
  ELSE IF siteDeclaresColorScheme(p) THEN TRUE
  ELSE FALSE

\* --------------------------------------------------------------- content/index.ts
\* What one tick reads: the stored settings, the origin's per-site entry, the
\* verdict of urlExcluded on the exclusion list, what isAlreadyDarkTheme would
\* answer for the page, and the colour pairs startOptimizerIfEnabled would sample
\* (the stored contrast is the default and nothing is sampled unless set
\* otherwise).
TickInput(en, mo, opt, det, perEn, perEx, force, ovEn, ovDet, regex, dark) ==
  [enabled |-> en, mode |-> mo, optimizerEnabled |-> opt,
   detectDarkSites |-> det, perEnabled |-> perEn,
   perExclude |-> perEx, forceDarkMode |-> force,
   ovEnabled |-> ovEn, ovDetect |-> ovDet, regexMatch |-> regex,
   dark |-> dark, contrast |-> DEFAULT_CONTRAST, samples |-> <<>>]

NoInput == TickInput(FALSE, NoMode, FALSE, FALSE, "unset", FALSE, FALSE,
                     "unset", "unset", FALSE, FALSE)
NoTick == [ran |-> FALSE, consulted |-> FALSE, in |-> NoInput]

\* No reply of the worker has been delivered since the last tick.
NoSuggestion == -1

\* An optional boolean of a per-site entry laid over a base value.
Over(base, opt) == IF opt = "unset" THEN base ELSE opt = "true"

\* effectiveSettingsFor without the per-site enabled flag.
effectiveSettingsForGlobalOnly(in) ==
  [use |-> [enabled |-> Over(in.enabled, in.ovEnabled),
            mode |-> in.mode,
            contrast |-> in.contrast,
            optimizerEnabled |-> in.optimizerEnabled,
            detectDarkSites |-> Over(in.detectDarkSites, in.ovDetect)],
   excluded |-> in.perExclude \/ in.regexMatch]

\* effectiveSettingsFor: the base settings, overlaid with the per-site override,
\* then with the per-site enabled flag; excluded by the per-site flag or a regex.
effectiveSettingsFor(in) ==
  [use |-> [enabled |-> Over(Over(in.enabled, in.ovEnabled), in.perEnabled),
            mode |-> in.mode,
            contrast |-> in.contrast,
            optimizerEnabled |-> in.optimizerEnabled,
            detectDarkSites |-> Over(in.detectDarkSites, in.ovDetect)],
   excluded |-> in.perExclude \/ in.regexMatch]

\* ensurePreInjectCss: the one preInjectTag element is attached unless connected.
ensurePreInjectCss(w) ==
  LET w1 == IF w.doc.preinject THEN w ELSE Attach(w, "udr-preinject")
  IN [w1 EXCEPT !.ctl.preInjectTag = TRUE, !.doc.preinject = TRUE,
                !.ctl.preInjected = TRUE]

removePreInjectCss(w) ==
  LET w1 == IF w.doc.preinject THEN Detach(w, "udr-preinject") ELSE w
  IN [w1 EXCEPT !.doc.preinject = FALSE, !.ctl.preInjected = FALSE]

\* applyFilterCss with an ensureStyleTag that creates an element on every call.
applyFilterCssAppend(w, s) ==
  [Attach(w, "udr-style")
     EXCEPT !.doc.udrStyle = [present |-> TRUE,
                              invert |-> (s.mode = "photon-inverter"),
                              contrast |-> s.contrast]]

\* applyFilterCss: ensureStyleTag (style-template.ts) creates the udr-style
\* element unless getElementById finds one, then the text of buildCss is set.
applyFilterCss(w, s) ==
  [(IF w.doc.udrStyle.present THEN w ELSE Attach(w, "udr-style"))
     EXCEPT !.doc.udrStyle = [present |-> TRUE,
                              invert |-> (s.mode = "photon-inverter"),
                              contrast |-> s.contrast]]

\* resetModeArtifacts without its photon-inverter branch.
resetModeArtifactsKeepPhoton(w) ==
  LET m == w.ctl.currentMode
      w1 == IF m = "dom-walker" THEN Log(resetDomWalker(w), "remove", m)
            ELSE IF m = "chroma-semantic" THEN Log(resetChromaSemantic(w), "remove", m)
            ELSE w
  IN [w1 EXCEPT !.ctl.currentMode = NoMode]

resetModeArtifacts(w) ==
  LET m == w.ctl.currentMode
      w1 == IF m = "photon-inverter" THEN Log(removePhotonInverter(w), "remove", m)
            ELSE IF m = "dom-walker" THEN Log(resetDomWalker(w), "remove", m)
            ELSE IF m = "chroma-semantic" THEN Log(resetChromaSemantic(w), "remove", m)
            ELSE w
  IN [w1 EXCEPT !.ctl.currentMode = NoMode]

\* applyCss; indexing is the time Chroma-Semantic's variable indexing takes if it runs.
applyCss(w, s, indexing) ==
  LET w0 == Log(w, "applyCss", s.mode)
      w1 == applyFilterCss(resetModeArtifacts(w0), s)
      w2 == IF s.mode = "photon-inverter"
              THEN applyPhotonInverter(Log(w1, "apply", "photon-inverter"))
            ELSE IF s.mode = "dom-walker" THEN applyDomWalker(w1)
            ELSE IF s.mode = "chroma-semantic" THEN applyChromaSemantic(w1, indexing)
            ELSE applyPhotonInverter(Log(w1, "apply", "photon-inverter"))
  IN IF w2.hist.raised THEN w2
     ELSE [w2 EXCEPT !.doc.attrMode = s.mode,
                     !.ctl.currentMode = s.mode,
                     !.doc.attrApplied = TRUE,
                     !.doc.dataApplied = TRUE,
                     !.ctl.applied = TRUE]

removeCss(w) ==
  LET w0 == Log(w, "removeCss", NoMode)
      w1 == resetModeArtifacts(w0)
      w2 == [(IF w1.doc.udrStyle.present THEN Detach(w1, "udr-style") ELSE w1)
               EXCEPT !.doc.udrStyle = AbsentStyle]
      w3 == Log(removePhotonInverter(w2), "remove", "photon-inverter")
      w4 == [w3 EXCEPT !.doc.attrApplied = FALSE,
                       !.doc.attrMode = NoMode,
                       !.doc.dataApplied = FALSE,
                       !.doc.inline["html"] = "none",
                       !.doc.inline["body"] = "none"]
  IN [removePreInjectCss(w4) EXCEPT !.ctl.applied = FALSE]

\* -------------------------------------------------------- optimizer-worker.ts
\* A sample is the contrast ratio of its colour pair in hundredths (450 is
\* 4.5:1), or Unparseable when parseColor returns null for one of its colours.
Unparseable == 0

\* Array.prototype.sort with the numeric comparator.
RECURSIVE Insert(_, _)
Insert(sorted, x) ==
  IF sorted = <<>> THEN <<x>>
  ELSE IF x <= Head(sorted) THEN <<x>> \o sorted
  ELSE <<Head(sorted)>> \o Insert(Tail(sorted), x)

RECURSIVE Sort(_)
Sort(seq) == IF seq = <<>> THEN <<>> ELSE Insert(Sort(Tail(seq)), Head(seq))

\* Math.round(110 + (deficit / 0.5) * 10) for a deficit in hundredths.
RoundSuggested(deficit) == (2 * (550 + deficit) + 5) \div 10

\* The worker's onmessage without its two early returns.
workerOnmessageAlways(w, samples) ==
  [w EXCEPT !.inbox.toPage = Append(@, DEFAULT_CONTRAST)]

\* The worker's onmessage for an analyze request: no reply for an empty batch or
\* one without a parseable pair, otherwise one reply.
workerOnmessage(w, samples) ==
  IF samples = <<>> THEN w
  ELSE LET ratios == Sort(SelectSeq(samples, LAMBDA r : r # Unparseable))
       IN IF ratios = <<>> THEN w
          ELSE LET median == ratios[(Len(ratios) \div 2) + 1]
                   suggested == IF median < 450 THEN RoundSuggested(450 - median)
                                ELSE IF median > 900 THEN 100
                                ELSE DEFAULT_CONTRAST
               IN [w EXCEPT !.inbox.toPage = Append(@, suggested)]

\* startOptimizerIfEnabled: create the worker once, its onmessage closing over
\* the settings of that call, then post one analyze request with the samples.
startOptimizerIfEnabled(w, s, samples) ==
  IF ~s.optimizerEnabled THEN w
  ELSE LET w1 == IF w.ctl.worker.created THEN w
                 ELSE [w EXCEPT !.ctl.worker = [created |-> TRUE, mode |-> s.mode]]
       IN [w1 EXCEPT !.inbox.toWorker = Append(@, samples)]

\* Math.min(hi, Math.max(lo, x)) without the bounds.
ClampNone(lo, hi, x) == x

Clamp(lo, hi, x) == IF x < lo THEN lo ELSE IF x > hi THEN hi ELSE x

\* worker.onmessage without its look-up of the udr-style element.
onmessageNoTagCheck(w, suggestedContrast, indexing) ==
  LET w0 == [Log(w, "onmessage", NoMode) EXCEPT !.hist.suggested = suggestedContrast]
  IN applyCss(w0, [mode |-> w0.ctl.worker.mode,
                   contrast |-> Clamp(MIN_CONTRAST, MAX_CONTRAST, suggestedContrast)],
              indexing)

\* worker.onmessage for a reply carrying a number.
onmessage(w, suggestedContrast, indexing) ==
  LET w0 == [Log(w, "onmessage", NoMode) EXCEPT !.hist.suggested = suggestedContrast]
  IN IF w0.doc.udrStyle.present
     THEN applyCss(w0, [mode |-> w0.ctl.worker.mode,
                        contrast |-> Clamp(MIN_CONTRAST, MAX_CONTRAST, suggestedContrast)],
                   indexing)
     ELSE w0

\* The two early returns of tick.
tickSkip(w) ==
  IF w.ctl.applied THEN removeCss(w)
  ELSE IF w.ctl.preInjected THEN removePreInjectCss(w)
  ELSE w

tick(w, in, indexing) ==
  LET eff == effectiveSettingsFor(in)
      use == eff.use
      shouldDetectDark == use.detectDarkSites /\ ~in.forceDarkMode
      w0 == [w EXCEPT !.hist.tick = [ran |-> TRUE, consulted |-> FALSE, in |-> in],
                      !.hist.suggested = NoSuggestion]
  IN IF ~use.enabled \/ eff.excluded
     THEN tickSkip(w0)
     ELSE LET w1 == [w0 EXCEPT !.hist.tick.consulted = shouldDetectDark]
          IN IF shouldDetectDark /\ in.dark
             THEN tickSkip(w1)
             ELSE LET w2 == applyCss(ensurePreInjectCss(w1), use, indexing)
                  IN IF w2.hist.raised THEN w2
                     ELSE startOptimizerIfEnabled(w2, use, in.samples)

\* ---------------------------------------------------------- popup: debounce
\* The sliders bindRange gives a debounced update each, and slider values.
Wrappers == {"brightness", "contrast"}
Values == {1, 2}

\* The platform's timer list holds records [w, due, arg]: the timer set by
\* wrapper w, due at a time, to call func with arg.  A wrapper's timeout
\* variable refers to its pending timer, if it has one (clearTimeout of a timer
\* that has fired does nothing).
TimersOf(p, i) == {tm \in p.timers : tm.w = i}

NeverCalled == [called |-> FALSE, at |-> 0, arg |-> 0]

\* The history kept of wrapper i: calls made, the last call, calls that came at
\* least WAIT after the call before them (or first), invocations of func and
\* the last of them.
NoteCall(p, i, v) ==
  [p EXCEPT !.calls[i] = @ + 1,
            !.bursts[i] = IF ~p.last[i].called \/ p.now - p.last[i].at >= WAIT
                          THEN @ + 1 ELSE @,
            !.last[i] = [called |-> TRUE, at |-> p.now, arg |-> v]]

\* The debounced function without its clearTimeout.
debouncedNoClear(p, i, v) ==
  [NoteCall(p, i, v) EXCEPT !.timers = @ \cup {[w |-> i, due |-> p.now + WAIT, arg |-> v]}]

\* The function debounce returns, called with v: clearTimeout, then setTimeout.
debounced(p, i, v) ==
  [NoteCall(p, i, v) EXCEPT
     !.timers = (@ \ TimersOf(p, i)) \cup {[w |-> i, due |-> p.now + WAIT, arg |-> v]}]

\* The timer's callback: func(...args).
timerFires(p, tm) ==
  [p EXCEPT !.timers = @ \ {tm},
            !.invoked[tm.w] = @ + 1,
            !.lastInvoke[tm.w] = [at |-> p.now, arg |-> tm.arg]]

\* A timer is due: its callback runs before any later event.
Due(p) == {tm \in p.timers : tm.due <= p.now}

\* ---------------------------------------------------------------- utils/storage.ts
\* The settings record under the key "settings", by the fields the writers
\* below touch; siteEnabled and siteExclude are the enabled and exclude flags of
\* the per-site entry of the tab's origin, schedule is schedule.enabled.
Fields == {"enabled", "mode", "contrast", "siteEnabled", "siteExclude", "schedule"}

Stored(en, mo, con, siteEn, siteEx, sched) ==
  [enabled |-> en, mode |-> mo, contrast |-> con, siteEnabled |-> siteEn,
   siteExclude |-> siteEx, schedule |-> sched]

\* What getSettings returns on an empty storage (DEFAULTS), with the schedule
\* switched on.
StoredAtFirst == Stored(TRUE, "photon-inverter", DEFAULT_CONTRAST, "unset", "unset", TRUE)

\* What a tick reads when getSettings returns s (detection and the optimizer
\* are off, no regex matches).
InputOf(s) ==
  [TickInput(s.enabled, s.mode, FALSE, FALSE, s.siteEnabled, s.siteExclude = "true",
             FALSE, "unset", "unset", FALSE, FALSE)
     EXCEPT !.contrast = s.contrast]

\* A URL string as the URL parser reads it: scheme, host name, the port written
\* in it ("" when none is) and the path.  Strings built from its parts are
\* sequences of the parts.
Url(scheme, hostname, port, path) ==
  [scheme |-> scheme, hostname |-> hostname, port |-> port, path |-> path]

DefaultPort(scheme) == IF scheme = "http" THEN "80" ELSE "443"

\* new URL(url): protocol, hostname and port; the port is the empty string
\* when the URL names none or names its scheme's default.
ParseUrl(url) ==
  [protocol |-> <<url.scheme, ":">>,
   hostname |-> url.hostname,
   port |-> IF url.port = DefaultPort(url.scheme) THEN "" ELSE url.port]

\* originFromUrl: `${u.protocol}//${u.hostname}`.
originFromUrl(url) ==
  LET u == ParseUrl(url) IN u.protocol \o <<"//", u.hostname>>

\* new URL(url).origin for an http or https URL: scheme, host and, when it is
\* not empty, the port.
UrlOrigin(url) ==
  LET u == ParseUrl(url)
  IN u.protocol \o <<"//", u.hostname>> \o (IF u.port = "" THEN <<>> ELSE <<":", u.port>>)

\* s.perSite[origin] ||= {} followed by the assignment of a flag, on a perSite
\* object given as the set of its keys.
WritePerSite(perSite, origin) == perSite \cup {origin}

\* base.perSite[origin] || {}: whether the look-up finds an entry.
HasPerSite(perSite, origin) == origin \in perSite

\* A writer between its await getSettings() and its setSettings: what it is,
\* its argument and the record it read.
Writer(kind, arg, s) == [kind |-> kind, arg |-> arg, s |-> s]

\* updateSettings(patch): { ...s, ...patch, perSite: { ...s.perSite,
\* ...patch.perSite } }; a patch is a pair of a top-level field and its value,
\* or of perSite and the entry for the origin, which replaces the entry read.
updateSettings(s, patch) ==
  IF patch[1] = "perSite"
  THEN [s EXCEPT !.siteEnabled = patch[2].enabled, !.siteExclude = patch[2].exclude]
  ELSE [s EXCEPT ![patch[1]] = patch[2]]

\* a ?? b on an optional boolean.
Coalesce(opt, base) == IF opt = "unset" THEN base ELSE opt = "true"

TriOf(b) == IF b THEN "true" ELSE "false"

\* contextMenus.onClicked: toggle the site's enabled flag, or its exclude flag.
contextMenuClicked(s, menuItemId) ==
  IF menuItemId = "udr-toggle-site"
  THEN [s EXCEPT !.siteEnabled = TriOf(~Coalesce(s.siteEnabled, s.enabled))]
  ELSE [s EXCEPT !.siteExclude = TriOf(~Coalesce(s.siteExclude, FALSE))]

\* applyScheduleTick: the record it writes; it writes nothing when the schedule
\* is off or enabled already agrees with the window.
applyScheduleTick(s, inWindow) == [s EXCEPT !.enabled = inWindow]

ScheduleWrites(s, inWindow) == s.schedule /\ inWindow # s.enabled

\* The record a writer passes to setSettings.
WrittenBy(op) ==
  IF op.kind = "updateSettings" THEN updateSettings(op.s, op.arg)
  ELSE IF op.kind = "contextMenu" THEN contextMenuClicked(op.s, op.arg)
  ELSE applyScheduleTick(op.s, op.arg)

\* Whether the writer reaches its setSettings.
Writes(op) == op.kind = "schedule" => ScheduleWrites(op.s, op.arg)

\* setSettings(next) replaces the whole record.  The log keeps, for every
\* writer that has written, the fields it changed in the record it read.
setSettings(st, op) ==
  LET next == WrittenBy(op)
  IN [st EXCEPT !.settings = next,
                !.log = Append(@, [changed |-> {f \in Fields : next[f] # op.s[f]},
                                   next |-> next])]

\* ------------------------------------------------------------------ the platform
\* The background PRE_INJECT_CSS declares for html and body, !important.
PreInjectBackground == Rgba(26, 26, 26, 1)

\* The page as getComputedStyle shows it to the detector: while the
\* udr-preinject element is attached its !important rule decides body's
\* background-color.  The deeply nested divs are taken with the backgrounds
\* the page gives them.
SeenBy(d) ==
  [d.page EXCEPT !.hasBody = d.body,
                 !.bodyBg = IF d.preinject THEN PreInjectBackground ELSE @]

\* Time passes: every pending Chroma-Semantic cycle still within its budget ages.
Age(c) == IF c.k = "cs" /\ ~OverBudget(c.elapsed)
          THEN [c EXCEPT !.elapsed = @ + TimeStep] ELSE c

\* The records are delivered to each of the k connected Chroma-Semantic observers.
RECURSIVE Notify(_, _, _)
Notify(w, k, records) ==
  IF k = 0 THEN w ELSE Notify(csObserverCallback(w, records), k - 1, records)

\* After a handler, the mutation observers' callbacks run as microtasks on the
\* records queued, and again on the records their own writes queue, until none
\* is left (at most the given number of rounds is followed).
RECURSIVE Drain(_, _)
Drain(w, rounds) ==
  IF w.hist.records = <<>> \/ rounds = 0
  THEN [w EXCEPT !.hist.records = <<>>]
  ELSE LET records == w.hist.records
           w1 == [w EXCEPT !.hist.records = <<>>]
           k == Len(SelectSeq(w1.doc.observers, LAMBDA o : o = "cs"))
       IN Drain(Notify(w1, k, records), rounds - 1)

\* The handler ends in the world w, and the observers' callbacks have run.
Settle(w) ==
  LET d == Drain(w, MaxRounds)
  IN /\ doc' = d.doc
     /\ ctl' = d.ctl
     /\ dw' = d.dw
     /\ frames' = d.frames
     /\ inbox' = d.inbox
     /\ hist' = d.hist
     /\ err' = d.err
     /\ calc' = calc
     /\ popup' = popup

\* A handler that leaves the storage as it is ends in the world w.
Commit(w) == Settle(w) /\ store' = store

\* The mutation records of an insertion are delivered to the connected
\* observers in the order they were created.
RECURSIVE Deliver(_, _, _)
Deliver(w, observers, newElements) ==
  IF observers = <<>> THEN w
  ELSE LET w1 == IF Head(observers) = "dw" THEN dwMutationCallback(w, newElements)
                 ELSE csMutationCallback(w, newElements)
       IN Deliver(w1, Tail(observers), newElements)

\* ------------------------------------------------------------------------ state
\* The state when the content script loads; authored[e] tells whether the
\* page's markup sets an inline colour on e (it does from the moment e is in
\* the document).
InitOn(head, body, n0, authored, page) ==
  /\ doc = [udrStyle |-> AbsentStyle, snippet |-> FALSE, preinject |-> FALSE,
            attrApplied |-> FALSE, attrMode |-> NoMode, dataApplied |-> FALSE,
            inline |-> [e \in AllElems |-> IF authored[e] THEN "page" ELSE "none"],
            authored |-> authored,
            n |-> n0, observers |-> <<>>, head |-> head, body |-> body,
            tags |-> [id \in StyleIds |-> 0], page |-> page]
  /\ ctl = [applied |-> FALSE, preInjected |-> FALSE, preInjectTag |-> FALSE,
            currentMode |-> NoMode, worker |-> NoWorker]
  /\ dw = [processedElements |-> {}, mutationObserver |-> FALSE]
  /\ frames = <<>>
  /\ inbox = [toWorker |-> <<>>, toPage |-> <<>>]
  /\ hist = [calls |-> <<>>, open |-> {}, fellBack |-> FALSE, tick |-> NoTick,
             suggested |-> NoSuggestion, styled |-> [e \in AllElems |-> 0],
             reported |-> <<>>, raised |-> FALSE, advisories |-> 0,
             records |-> <<>>, watched |-> 0]
  /\ err = FALSE
  /\ calc = NoCalc
  /\ store = [settings |-> StoredAtFirst, reads |-> <<>>, ops |-> <<>>, log |-> <<>>,
              started |-> 0]
  /\ popup = [now |-> 0, timers |-> {},
              calls |-> [i \in Wrappers |-> 0],
              bursts |-> [i \in Wrappers |-> 0],
              last |-> [i \in Wrappers |-> NeverCalled],
              invoked |-> [i \in Wrappers |-> 0],
              lastInvoke |-> [i \in Wrappers |-> [at |-> 0, arg |-> 0]]]

\* A page without markers, with a white body and no deeply nested div.
BlankPage ==
  [hasBody |-> TRUE, meta |-> "absent", htmlClass |-> "", bodyClass |-> "",
   htmlDataTheme |-> "", htmlTheme |-> "", bodyDataTheme |-> "", bodyTheme |-> "",
   rootColorScheme |-> "normal", bodyColorScheme |-> "normal",
   bodyBg |-> Rgba(255, 255, 255, 1), divs |-> <<>>, prefersDark |-> FALSE]

InitOf(head, body, n0, authored) == InitOn(head, body, n0, authored, BlankPage)

\* A parsed page that holds n0 content elements.
InitAt(n0, authored) == InitOf(TRUE, TRUE, n0, authored)

\* The content script runs before the parser has created head and body.
InitEarly == InitOf(FALSE, FALSE, 0, [e \in AllElems |-> FALSE])

\* A page that holds all but one of the content elements.
InitWith(authored) == InitAt(MaxElems - 1, authored)

\* A page without inline styles of its own.
Init == InitWith([e \in AllElems |-> FALSE])

\* A page that holds any number of the content elements, none when body is
\* still empty.
InitAnySize == \E n0 \in 0..MaxElems : InitAt(n0, [e \in AllElems |-> FALSE])

\* A page whose content elements may carry inline styles of their own.
InitPage == \E a \in [Content -> BOOLEAN] : InitWith([e \in AllElems |-> e \in Content /\ a[e]])

\* How long processCSSVariables may take.
IndexingTimes == {0, TimeStep}

\* How long the loop of one Chroma-Semantic batch may take.
BatchTimes == {0, TimeStep}

\* Numbers a message from the worker may carry.
Suggestions == {0, MIN_CONTRAST, 100, MAX_CONTRAST, 300}

\* Settings the reapply signal may find on a site without a per-site entry and
\* with detection off: enabled with any mode, or disabled (tick then reads no
\* other field).
CoreInputs ==
  {TickInput(TRUE, m, FALSE, FALSE, "unset", FALSE, FALSE, "unset", "unset", FALSE, FALSE) :
     m \in Modes}
  \cup {TickInput(FALSE, "photon-inverter", FALSE, FALSE, "unset", FALSE, FALSE,
                  "unset", "unset", FALSE, FALSE)}

\* Every combination of the flags tick and effectiveSettingsFor read.
AllInputs ==
  {TickInput(e, m, FALSE, d, pe, px, f, oe, od, r, k) :
     e \in BOOLEAN, m \in {"photon-inverter"}, d \in BOOLEAN, pe \in Tri,
     px \in BOOLEAN, f \in BOOLEAN, oe \in Tri, od \in {"unset", "false"},
     r \in BOOLEAN, k \in BOOLEAN}

\* Batches of colour pairs the sampling may collect.
SampleBatches ==
  {<<>>, <<Unparseable>>, <<300>>, <<700>>, <<1200>>, <<1000, Unparseable, 300, 350>>}

\* Contrast percentages the stored settings may hold.
Contrasts == {DEFAULT_CONTRAST, 130}

\* Settings with the optimizer on (Photon Inverter or DOM Walker, any stored
\* contrast, any sampled batch), or the extension disabled.
OptInputs ==
  {[in EXCEPT !.optimizerEnabled = TRUE, !.contrast = c, !.samples = b] :
     in \in {i \in CoreInputs : i.enabled /\ i.mode \in {"photon-inverter", "dom-walker"}},
     c \in Contrasts, b \in SampleBatches}
  \cup {in \in CoreInputs : ~in.enabled}

\* Settings with the optimizer on on a page where nothing is sampled, or the
\* extension disabled.
ReplyInputs == {in \in OptInputs : in.samples = <<>> /\ in.contrast = DEFAULT_CONTRAST}

\* Roles with a text colour of their own, and any other role.
Roles == {"heading", "link", "generic"}

\* Channel values of the computed colours DOM Walker meets.
Channels == {0, 51, 127, 128, 204, 255}

\* Computed backgrounds the detector may read: transparent, or a grey (123 is
\* just below the threshold's luminance, 124 just above).
Grey(v) == Rgba(v, v, v, 1)
BodyBackgrounds == {Transparent, Grey(123), Grey(255)}
DivBackgrounds == {Transparent, Grey(0), Grey(124)}

\* The deeply nested divs of a page, by their computed backgrounds.
DivLists == UNION {[1..k -> DivBackgrounds] : k \in 0..MaxDivs}

\* Pages the detector may be asked about.
Pages ==
  [hasBody : BOOLEAN, meta : {"absent", "light dark"},
   htmlClass : {"", "Night"}, bodyClass : {"", "dark-mode"},
   htmlDataTheme : {"", "light"}, htmlTheme : {"", "dark"},
   bodyDataTheme : {"", "black"}, bodyTheme : {""},
   rootColorScheme : {"normal"}, bodyColorScheme : {"normal", "dark"},
   bodyBg : BodyBackgrounds, divs : DivLists, prefersDark : BOOLEAN]

\* The index sets Math.random may select among n deeply nested divs.
Picks(n) == {s \in SUBSET (1..n) : Cardinality(s) = Min(SampleDivs, n)}

\* Pages without markers and without the dark preference, with any body
\* background and any deeply nested divs.
PlainPages ==
  {[BlankPage EXCEPT !.bodyBg = b, !.divs = ds] : b \in BodyBackgrounds, ds \in DivLists}

\* The plain pages the detector calls light whichever divs it samples.
LightPages ==
  {p \in PlainPages : \A picked \in Picks(Len(p.divs)) : ~isAlreadyDarkTheme(p, picked)}

\* Settings with detection on and one of the strategies selected.
DetectInputs ==
  {TickInput(TRUE, m, FALSE, TRUE, "unset", FALSE, FALSE, "unset", "unset", FALSE, FALSE) :
     m \in Modes}

\* Records a write may leave in the storage before it signals the tab.
StoredSettings ==
  {Stored(e, m, c, "unset", "unset", FALSE) :
     e \in BOOLEAN, m \in {"photon-inverter", "dom-walker"}, c \in Contrasts}

\* Patches the popup and the options page send with udr:update-settings.
Patches ==
  {<<"contrast", 130>>, <<"mode", "dom-walker">>,
   <<"perSite", [enabled |-> "false", exclude |-> "unset"]>>}

\* The writers and their arguments.
WriterCalls ==
  {<<"updateSettings", p>> : p \in Patches}
  \cup {<<"contextMenu", m>> : m \in {"udr-toggle-site", "udr-exclude-site"}}
  \cup {<<"schedule", inWindow>> : inWindow \in BOOLEAN}

\* http and https URLs of tabs, with and without a port.
Urls ==
  {Url(s, ToString(h), p, path) :
     s \in {"http", "https"}, h \in 1..MaxHosts, p \in {"", "80", "443", "8080"},
     path \in {"/", "/a"}}

\* Style sheets a page may link: one that cannot be read, an empty one, and
\* sheets with colour variables, other variables and rules of other kinds.
Sheets ==
  {Sheet(FALSE, <<>>),
   Sheet(TRUE, <<>>),
   Sheet(TRUE, <<CssRule(TRUE, <<Declaration("--bg", "#fff")>>)>>),
   Sheet(TRUE, <<CssRule(TRUE, <<Declaration("--gap", "10px")>>)>>),
   Sheet(TRUE, <<CssRule(TRUE, <<Declaration("--accent", "RGBA(1, 2, 3, 0.5)"),
                                 Declaration("--gap", "10px"),
                                 Declaration("color", "rgb(0, 0, 0)")>>),
                 CssRule(FALSE, <<Declaration("--bg", "#1A1a1a")>>),
                 CssRule(TRUE, <<Declaration("--bg", "rgb(0, 0, 0)")>>)>>)}

\* document.styleSheets.
SheetLists == UNION {[1..k -> Sheets] : k \in 0..MaxSheets}

Bounded(w) ==
  /\ Len(w.frames) <= MaxPending
  /\ Len(w.inbox.toWorker) + Len(w.inbox.toPage) <= MaxReplies

\* --------------------------------------------------------------------- actions
\* The reapply tick (init, or a udr:settings-updated message).
TickOver(inputs) ==
  \E in \in inputs :
    \E indexing \in (IF in.mode = "chroma-semantic" THEN IndexingTimes ELSE {0}) :
    LET w == tick(Begin(World), in, indexing)
    IN Bounded(w) /\ Commit(w)

Tick == TickOver(CoreInputs)

TickAll == TickOver(AllInputs)

\* The reapply tick with detection on and the settings the tick before it
\* found: isAlreadyDarkTheme answers for the document as it is now.
TickSeen ==
  \E in \in DetectInputs, picked \in Picks(Len(doc.page.divs)) :
    \E indexing \in (IF in.mode = "chroma-semantic" THEN IndexingTimes ELSE {0}) :
    LET seen == [in EXCEPT !.dark = isAlreadyDarkTheme(SeenBy(doc), picked)]
        w == tick(Begin(World), seen, indexing)
    IN /\ hist.tick.ran => hist.tick.in.mode = in.mode
       /\ Bounded(w)
       /\ Commit(w)

\* A writer has stored a record and sent udr:settings-updated: the listener
\* calls tick, which calls getSettings; the read is in flight.
SettingsUpdated ==
  /\ Len(store.reads) < MaxReads
  /\ \E s \in StoredSettings :
       store' = [store EXCEPT !.settings = s, !.reads = Append(@, s)]
  /\ UNCHANGED <<doc, ctl, dw, frames, inbox, hist, err, calc, popup>>

\* The sequence without its i-th element.
Without(seq, i) == SubSeq(seq, 1, i - 1) \o SubSeq(seq, i + 1, Len(seq))

\* One of the reads in flight resolves: its tick runs to its end.
ReadResolves ==
  \E i \in DOMAIN store.reads :
    LET in == InputOf(store.reads[i])
        w == tick(Begin(World), in, 0)
    IN /\ Bounded(w)
       /\ Settle(w)
       /\ store' = [store EXCEPT !.reads = Without(@, i)]

\* A writer starts: its getSettings returns the record stored now.
WriterReads ==
  /\ Len(store.ops) < MaxWriters
  /\ store.started < MaxWrites
  /\ \E call \in WriterCalls :
       store' = [store EXCEPT !.ops = Append(@, Writer(call[1], call[2], store.settings)),
                              !.started = @ + 1]
  /\ UNCHANGED <<doc, ctl, dw, frames, inbox, hist, err, calc, popup>>

\* A writer goes on after its read: it calls setSettings, or returns.
WriterWrites ==
  /\ \E i \in DOMAIN store.ops :
       LET op == store.ops[i]
           st == [store EXCEPT !.ops = Without(@, i)]
       IN store' = IF Writes(op) THEN setSettings(st, op) ELSE st
  /\ UNCHANGED <<doc, ctl, dw, frames, inbox, hist, err, calc, popup>>

\* Ticks that find DOM Walker selected, or the extension disabled.
DwInputs == {in \in CoreInputs : in.mode = "dom-walker" \/ ~in.enabled}

TickDw == TickOver(DwInputs)

TickOpt == TickOver(OptInputs)

TickReply == TickOver(ReplyInputs)

\* The next animation frame callback runs.
RunFrame ==
  /\ frames # <<>>
  /\ LET c == Head(frames)
         w == [Begin(World) EXCEPT !.frames = Tail(frames)]
     IN IF c.k = "dw" THEN Commit(dwProcessNextBatch(w, c))
        ELSE \E took \in BatchTimes : Commit(csProcessNextBatch(w, c, took))

\* Time passes while Chroma-Semantic batches wait for their frame.
TimePasses ==
  /\ \E i \in DOMAIN frames : Age(frames[i]) # frames[i]
  /\ Commit([Begin(World) EXCEPT !.frames = [i \in DOMAIN frames |-> Age(frames[i])]])

\* The parser creates head.
ParseHead ==
  /\ ~doc.head
  /\ Commit([Begin(World) EXCEPT !.doc.head = TRUE])

\* The parser creates body, after head.
ParseBody ==
  /\ doc.head /\ ~doc.body
  /\ Commit([Begin(World) EXCEPT !.doc.body = TRUE])

\* The page inserts an element under body.
InsertElement ==
  /\ doc.body
  /\ doc.n < MaxElems
  /\ LET el == ContentName(doc.n + 1)
         w == [Begin(World) EXCEPT !.doc.n = @ + 1, !.hist.reported = <<el>>]
     IN Commit(Deliver(w, w.doc.observers, <<el>>))

\* The list the observers' callbacks build from mutation records: every added
\* node followed by its descendants (child is top's, "" when top has none).
RECURSIVE NewElements(_, _, _)
NewElements(records, top, child) ==
  IF records = <<>> THEN <<>>
  ELSE (IF Head(records) = top /\ child # "" THEN <<top, child>> ELSE <<Head(records)>>)
       \o NewElements(Tail(records), top, child)

\* The page inserts one element under body, or two: siblings, or a node with a
\* descendant.  The mutation records name added nodes, possibly more than once
\* (a node added, moved and added again; a child appended to a node that was
\* itself just added), and between them cover every inserted element.
InsertNodes ==
  /\ doc.n < MaxElems
  /\ \E k \in 1..Min(2, MaxElems - doc.n), nested \in BOOLEAN :
       /\ nested => k = 2
       /\ LET top == ContentName(doc.n + 1)
              child == IF nested THEN ContentName(doc.n + 2) ELSE ""
              inserted == {ContentName(doc.n + i) : i \in 1..k}
          IN \E records \in UNION {[1..m -> inserted] : m \in 1..MaxRecords} :
               LET newElements == NewElements(records, top, child)
                   w == [Begin(World) EXCEPT !.doc.n = @ + k,
                                             !.hist.reported = newElements]
               IN /\ inserted \subseteq {newElements[i] : i \in DOMAIN newElements}
                  /\ Commit(Deliver(w, w.doc.observers, newElements))

\* The worker handles the next analyze request.
WorkerRun ==
  /\ inbox.toWorker # <<>>
  /\ Commit(workerOnmessage([Begin(World) EXCEPT !.inbox.toWorker = Tail(@)],
                            Head(inbox.toWorker)))

\* The worker's next reply is delivered to the page.
WorkerReply ==
  /\ inbox.toPage # <<>>
  /\ \E indexing \in (IF ctl.worker.mode = "chroma-semantic" THEN IndexingTimes ELSE {0}) :
       LET w == onmessage([Begin(World) EXCEPT !.inbox.toPage = Tail(@)],
                          Head(inbox.toPage), indexing)
       IN Bounded(w) /\ Commit(w)

\* A message carrying any number is delivered to the page's onmessage.
AnyReply ==
  /\ ctl.worker.created
  /\ \E suggested \in Suggestions :
       LET w == onmessage(Begin(World), suggested, 0)
       IN Bounded(w) /\ Commit(w)

\* processBatch computes the colour it writes for a computed background
\* (isBackground) or a computed text or border colour.
InvertLightness ==
  /\ calc = NoCalc
  /\ \E r \in Channels, g \in Channels, b \in Channels, isBackground \in BOOLEAN :
       calc' = [fn |-> "invertLightness",
                in |-> [rgb |-> Rgb(r, g, b), isBackground |-> isBackground],
                out |-> invertLightness(Rgb(r, g, b), isBackground)]
  /\ UNCHANGED <<doc, ctl, dw, frames, inbox, hist, err, popup, store>>

\* A Chroma-Semantic batch styles an element of some role and depth, with or
\* without a background of its own.
SemanticStyle ==
  /\ calc = NoCalc
  /\ \E role \in Roles, depth \in 0..MaxDepth, hasBackground \in BOOLEAN :
       calc' = [fn |-> "applySemanticStyle",
                in |-> [role |-> role, depth |-> depth, hasBackground |-> hasBackground],
                out |-> applySemanticStyle(role, depth, hasBackground)]
  /\ UNCHANGED <<doc, ctl, dw, frames, inbox, hist, err, popup, store>>

\* The user moves a slider: its oninput calls the debounced update.
SliderInput ==
  /\ Due(popup) = {}
  /\ popup.now + WAIT <= MaxTime
  /\ \E i \in Wrappers, v \in Values :
       /\ popup.calls[i] < MaxCalls
       /\ popup' = debounced(popup, i, v)
  /\ UNCHANGED <<doc, ctl, dw, frames, inbox, hist, err, calc, store>>

\* A timer that is due fires.
TimerFires ==
  /\ \E tm \in Due(popup) : popup' = timerFires(popup, tm)
  /\ UNCHANGED <<doc, ctl, dw, frames, inbox, hist, err, calc, store>>

\* The popup's clock advances, up to the next timer that falls due.
ClockAdvances ==
  /\ Due(popup) = {}
  /\ popup.now < MaxTime
  /\ LET next == popup.now + Quantum
     IN popup' = [popup EXCEPT !.now =
                    IF \E tm \in popup.timers : tm.due < next
                    THEN CHOOSE d \in {tm.due : tm \in popup.timers} :
                           \A tm \in popup.timers : d <= tm.due
                    ELSE Min(next, MaxTime)]
  /\ UNCHANGED <<doc, ctl, dw, frames, inbox, hist, err, calc, store>>

\* The context menu (or the popup) writes a per-site entry for the tab's URL
\* into an empty perSite object, and the content script of that tab looks its
\* own URL up.
PerSiteLookup ==
  /\ calc = NoCalc
  /\ \E url \in Urls :
       LET perSite == WritePerSite({}, originFromUrl(url))
       IN calc' = [fn |-> "perSite", in |-> url,
                   key |-> UrlOrigin(url),
                   out |-> HasPerSite(perSite, UrlOrigin(url))]
  /\ UNCHANGED <<doc, ctl, dw, frames, inbox, hist, err, popup, store>>

\* applyChromaSemantic indexes the variables of the document's style sheets.
IndexSheets ==
  /\ calc = NoCalc
  /\ \E sheets \in SheetLists :
       LET result == processCSSVariables(sheets)
       IN calc' = [fn |-> "processCSSVariables", in |-> sheets, out |-> result,
                   next |-> AfterIndexing(result)]
  /\ UNCHANGED <<doc, ctl, dw, frames, inbox, hist, err, popup, store>>

\* The detector classifies a page.
Detect ==
  /\ calc = NoCalc
  /\ \E p \in Pages : \E picked \in Picks(Len(p.divs)) :
       calc' = [fn |-> "isAlreadyDarkTheme", in |-> p,
                samples |-> IF p.hasBody THEN LuminanceSamples(p, picked) ELSE <<>>,
                out |-> isAlreadyDarkTheme(p, picked)]
  /\ UNCHANGED <<doc, ctl, dw, frames, inbox, hist, err, popup, store>>

Next ==
  \/ Tick
  \/ RunFrame
  \/ TimePasses
  \/ InsertElement

Spec == Init /\ [][Next]_vars

\* The tick alone, over every combination of the flags it reads.
SpecTick == Init /\ [][TickAll]_vars

\* Repeated ticks with unchanged settings on a light page.
InitLight ==
  \E p \in LightPages : InitOn(TRUE, TRUE, MaxElems - 1, [e \in AllElems |-> FALSE], p)

NextSeen ==
  \/ TickSeen
  \/ RunFrame
  \/ TimePasses

SpecSeen == InitLight /\ [][NextSeen]_vars

\* Settings updates signalled to a tab whose ticks await their reads.
NextSignals ==
  \/ SettingsUpdated
  \/ ReadResolves
  \/ RunFrame

SpecSignals == Init /\ [][NextSignals]_vars

\* The writers of the settings record.
NextStore ==
  \/ WriterReads
  \/ WriterWrites

SpecStore == Init /\ [][NextStore]_vars

\* DOM Walker switched on and off on pages with inline styles of their own.
NextPage ==
  \/ TickDw
  \/ RunFrame
  \/ InsertElement

SpecPage == InitPage /\ [][NextPage]_vars

\* The controller on a document that is still being parsed.
NextEarly ==
  \/ Tick
  \/ RunFrame
  \/ ParseHead
  \/ ParseBody

SpecEarly == InitEarly /\ [][NextEarly]_vars

\* DOM Walker on a page of any size that may grow.
NextWatch ==
  \/ TickDw
  \/ RunFrame
  \/ InsertNodes

SpecWatch == InitAnySize /\ [][NextWatch]_vars

\* The same, with every animation frame callback run in the end.
SpecWatchFair == SpecWatch /\ WF_vars(RunFrame)

\* One tick with the optimizer on, on a document the page leaves alone.
QuietInputs ==
  {[in EXCEPT !.optimizerEnabled = TRUE, !.samples = b] :
     in \in {i \in CoreInputs : i.enabled}, b \in SampleBatches}

TickOnce == ~hist.tick.ran /\ TickOver(QuietInputs)

NextQuiet ==
  \/ TickOnce
  \/ WorkerRun
  \/ WorkerReply
  \/ RunFrame
  \/ TimePasses

SpecQuiet == Init /\ [][NextQuiet]_vars

\* The optimizer's loop: ticks with the optimizer on, the worker, its replies.
NextOpt ==
  \/ TickOpt
  \/ WorkerRun
  \/ WorkerReply
  \/ RunFrame

SpecOpt == Init /\ [][NextOpt]_vars

\* The page's onmessage handler under any numeric message.
NextReply ==
  \/ TickReply
  \/ WorkerRun
  \/ AnyReply
  \/ RunFrame

SpecReply == Init /\ [][NextReply]_vars

\* The colours the two traversal strategies compute for single elements.
NextColour ==
  \/ InvertLightness
  \/ SemanticStyle

SpecColour == Init /\ [][NextColour]_vars

\* The popup's sliders and their timers.
NextPopup ==
  \/ SliderInput
  \/ TimerFires
  \/ ClockAdvances

SpecPopup == Init /\ [][NextPopup]_vars

\* Per-site entries written and looked up for the same URL.
SpecOrigin == Init /\ [][PerSiteLookup]_vars

\* Variable indexing over documents with readable and unreadable sheets.
SpecSheets == Init /\ [][IndexSheets]_vars

\* The detector alone, over pages with and without markers.
SpecDetect == Init /\ [][Detect]_vars

\* ---------------------------------------------------------------------- claims
InlineOf(kind) == {e \in AllElems : doc.inline[e] = kind}
Connected(kind) == \E i \in DOMAIN doc.observers : doc.observers[i] = kind
Pending(kind) == {i \in DOMAIN frames : frames[i].k = kind}
Called(op, strat) ==
  \E i \in DOMAIN hist.calls : hist.calls[i].op = op /\ hist.calls[i].strat = strat

\* The strategies that have an artifact on the document.
ArtifactOwners ==
  {m \in Modes :
     \/ doc.attrMode = m
     \/ m = "photon-inverter" /\ doc.snippet
     \/ m = "dom-walker" /\ (InlineOf("dw") # {} \/ Connected("dw"))
     \/ m = "chroma-semantic" /\ (InlineOf("cs") # {} \/ Connected("cs"))}

\* C1: in every reachable state the artifacts on the document (injected style
\* block, inline styles, connected mutation watchers, mode marker) belong to at
\* most one strategy.
C1_OneStrategyArtifacts == Cardinality(ArtifactOwners) <= 1

\* C2: applyCss(s) calls the remove of the previously recorded strategy, if any,
\* before the apply of s.mode, and ends with currentMode = s.mode and applied;
\* removeCss calls the active strategy's remove and ends with currentMode null
\* and applied false; no apply of a strategy runs while another strategy's
\* apply has not been followed by that strategy's remove.
C2_ControllerTransitions ==
  [][LET c == hist'.calls
     IN /\ (c # <<>> /\ c[1].op = "applyCss") =>
             /\ ctl.currentMode # NoMode =>
                  (Len(c) >= 2 /\ c[2].op = "remove" /\ c[2].strat = ctl.currentMode)
             /\ \E i \in DOMAIN c : c[i].op = "apply" /\ c[i].strat = c[1].strat
             /\ ctl'.currentMode = c[1].strat
             /\ ctl'.applied
        /\ (c # <<>> /\ c[1].op = "removeCss") =>
             /\ ctl.currentMode # NoMode =>
                  (Len(c) >= 2 /\ c[2].op = "remove" /\ c[2].strat = ctl.currentMode)
             /\ ctl'.currentMode = NoMode
             /\ ~ctl'.applied
        /\ \A i \in DOMAIN c : c[i].op = "apply" => c[i].open \subseteq {c[i].strat}
    ]_vars

\* What the claims call the outcome of a tick, from what the tick read.
TickEnabled(in) ==
  IF in.perEnabled # "unset" THEN in.perEnabled = "true"
  ELSE IF in.ovEnabled # "unset" THEN in.ovEnabled = "true"
  ELSE in.enabled
TickExcluded(in) == in.perExclude \/ in.regexMatch
TickDetects(in) == IF in.ovDetect # "unset" THEN in.ovDetect = "true" ELSE in.detectDarkSites
TickShouldApply(in) ==
  TickEnabled(in) /\ ~TickExcluded(in)
  /\ (~TickDetects(in) \/ in.forceDarkMode \/ ~in.dark)

NoEngineArtifacts ==
  /\ ~doc.udrStyle.present
  /\ ~doc.snippet
  /\ ~doc.preinject
  /\ ~doc.attrApplied
  /\ doc.attrMode = NoMode
  /\ \A e \in AllElems : doc.inline[e] = "none"

\* C3: after a tick that found the extension disabled or the URL excluded, the
\* document holds no engine artifact, and this stays so until a later tick
\* applies again.
C3_CleanAfterDisable ==
  (hist.tick.ran /\ (~TickEnabled(hist.tick.in) \/ TickExcluded(hist.tick.in)))
    => NoEngineArtifacts

C5_NoSnippetAfterSwitch ==
  [][(/\ ctl.currentMode = "photon-inverter"
      /\ hist'.calls # <<>>
      /\ hist'.calls[1].op = "applyCss"
      /\ hist'.calls[1].strat = "dom-walker") => ~doc'.snippet]_vars

C5_Witness ==
  /\ Len(hist.calls) >= 2
  /\ hist.calls[1].op = "applyCss" /\ hist.calls[1].strat = "dom-walker"
  /\ hist.calls[2].op = "remove" /\ hist.calls[2].strat = "photon-inverter"
  /\ ctl.currentMode = "dom-walker"
  /\ ~doc.snippet

DwClean ==
  /\ InlineOf("dw") = {}
  /\ dw.processedElements = {}
  /\ ~dw.mutationObserver
  /\ ~Connected("dw")

\* C6: from the return of DOM Walker's remove until its next apply, no element
\* carries an inline style written by it, the processed set is empty and no
\* DOM Walker watcher is connected.
C6_DomWalkerRemoved == "dom-walker" \notin hist.open => DwClean

\* C7: each strategy's remove raises no error in any state and is idempotent.
C7_RemoveIdempotent ==
  LET w == World
      p == removePhotonInverter(w)
      d == resetDomWalker(w)
      c == resetChromaSemantic(w)
  IN /\ ~p.err /\ removePhotonInverter(p) = p
     /\ ~d.err /\ resetDomWalker(d) = d
     /\ ~c.err /\ resetChromaSemantic(c) = c

\* DOM Walker interrupted between two batches, with a remove that has work to do.
C7_Witness ==
  /\ \E i \in Pending("dw") : frames[i].idx > 0
  /\ resetDomWalker(World) # World
  /\ ~doc.snippet

\* C8: at most one traversal cycle of a strategy is in flight at any time.
C8_OneCycleInFlight ==
  /\ Cardinality(Pending("dw")) <= 1
  /\ Cardinality(Pending("cs")) <= 1

\* C9: when the governor has found the budget exceeded, then once the handler
\* has returned and no frame callback is pending, the Photon Inverter's style
\* block is present and the mode marker is not chroma-semantic.
C9_FallbackMarker ==
  (Called("fallback", "chroma-semantic") /\ frames = <<>>)
    => (doc.snippet /\ doc.attrMode # "chroma-semantic")

\* C10: once the governor has fallen back, no handler starts a Chroma-Semantic
\* traversal again.
C10_FallbackSticks ==
  [][hist.fellBack =>
       \A i \in DOMAIN hist'.calls :
          ~(hist'.calls[i].op = "traverse" /\ hist'.calls[i].strat = "chroma-semantic")
    ]_vars

\* C11: in a Chroma-Semantic apply the elapsed time is checked after every
\* batch, the last one included: a batch that ends with more than 200 ms
\* elapsed, with no further batch of a cycle waiting, has fallen back to Photon
\* Inverter by the time its handler returns.
C11_CheckedAfterLastBatch ==
  (Called("overrun", "chroma-semantic") /\ Pending("cs") = {})
    => Called("fallback", "chroma-semantic")

\* C12: from the return of Chroma-Semantic's remove until its next apply, no
\* element carries an inline style written by it and no Chroma-Semantic watcher
\* is connected, so no element inserted in between is styled by it.
C12_ChromaRemoved ==
  "chroma-semantic" \notin hist.open => (InlineOf("cs") = {} /\ ~Connected("cs"))

\* The inline colour e had before any strategy touched it.
Original(e) == IF doc.authored[e] THEN "page" ELSE "none"

\* C13: DOM Walker's apply, run until its initial pass is complete, followed by
\* its remove is a round trip on inline styles: every processed element's inline
\* colours are what they were before apply (unset if they were unset).
C13_DomWalkerRoundTrip ==
  [][(/\ dw.mutationObserver
      /\ Pending("dw") = {}
      /\ hist'.calls # <<>>
      /\ hist'.calls[1].op = "removeCss")
       => \A e \in dw.processedElements : doc'.inline[e] = Original(e)]_vars

\* A step in which the page's onmessage handled a reply, and one in which it
\* went on to apply it.
ReplyDelivered == hist'.calls # <<>> /\ hist'.calls[1].op = "onmessage"
ReplyApplied == ReplyDelivered /\ Len(hist'.calls) >= 2

\* C14: feeding a worker suggestion back re-invokes the active strategy's apply
\* and calls no strategy's remove: the active strategy stays the same and its
\* processed-element set, mutation watcher and style element are not torn down.
C14_RefreshWithoutTeardown ==
  [][ReplyApplied =>
       /\ \A i \in DOMAIN hist'.calls : hist'.calls[i].op # "remove"
       /\ ctl'.currentMode = ctl.currentMode
       /\ dw.processedElements \subseteq dw'.processedElements
       /\ dw.mutationObserver => dw'.mutationObserver
       /\ doc.snippet => doc'.snippet
    ]_vars

\* C15: a reply that arrives after a tick changed the mode leaves the mode the
\* tick selected in place: the recorded mode, the mode marker and the filter
\* rule stay those of the active strategy.
C15_ReplyKeepsActiveMode ==
  [][(ReplyDelivered /\ ctl.worker.mode # ctl.currentMode) =>
       /\ ctl'.currentMode = ctl.currentMode
       /\ doc'.attrMode = doc.attrMode
       /\ doc'.udrStyle.invert = doc.udrStyle.invert
    ]_vars

\* Twice the median of a sorted, non-empty sequence of numbers.
TwiceMedian(sorted) ==
  LET n == Len(sorted)
  IN IF n % 2 = 1 THEN 2 * sorted[(n + 1) \div 2]
     ELSE sorted[n \div 2] + sorted[(n \div 2) + 1]

\* C16: for a request with a parseable pair and median ratio m: below 4.5 the
\* worker suggests round(110 + 10 * (4.5 - m) / 0.5), above 9 it suggests 100,
\* and from 4.5 to 9 it suggests nothing.
C16_WorkerSuggestion ==
  [][Len(inbox'.toWorker) < Len(inbox.toWorker) =>
       LET ratios == Sort(SelectSeq(Head(inbox.toWorker), LAMBDA r : r # Unparseable))
           m2 == TwiceMedian(ratios)
       IN ratios # <<>> =>
            IF m2 < 900 THEN inbox'.toPage = Append(inbox.toPage, (2005 - m2) \div 10)
            ELSE IF m2 > 1800 THEN inbox'.toPage = Append(inbox.toPage, 100)
            ELSE inbox'.toPage = inbox.toPage
    ]_vars

\* C17: a contrast applied in response to a message from the worker lies in
\* 50..200, whatever number the message carried.
C17_AppliedContrastInRange ==
  (Called("onmessage", NoMode) /\ Called("applyCss", ctl.currentMode))
    => (doc.udrStyle.contrast >= 50 /\ doc.udrStyle.contrast <= 200)

\* A message carrying 300 was applied as 200, one carrying 0 would be 50.
C17_Witness ==
  /\ Called("onmessage", NoMode)
  /\ Called("applyCss", ctl.currentMode)
  /\ hist.suggested = 300
  /\ doc.udrStyle.contrast = MAX_CONTRAST

\* While no reply has been delivered since the last tick that applied, the
\* filter rule is the one that tick wrote.
NoReplyKeeps ==
  (hist.tick.ran /\ ctl.applied /\ hist.suggested = NoSuggestion) =>
    doc.udrStyle = [present |-> TRUE,
                    invert |-> (hist.tick.in.mode = "photon-inverter"),
                    contrast |-> hist.tick.in.contrast]

\* C18: the worker answers an analyze request with at most one reply, and with
\* none when the batch is empty or holds no parseable pair; as long as no reply
\* arrives, the modifiers of the last tick stay in effect.
C18_AtMostOneReply ==
  [][/\ Len(inbox'.toWorker) < Len(inbox.toWorker) =>
          /\ Len(inbox'.toPage) <= Len(inbox.toPage) + 1
          /\ SubSeq(inbox'.toPage, 1, Len(inbox.toPage)) = inbox.toPage
          /\ (\A i \in DOMAIN Head(inbox.toWorker) :
                 Head(inbox.toWorker)[i] = Unparseable) => inbox'.toPage = inbox.toPage
      /\ NoReplyKeeps'
    ]_vars

\* The worker has consumed the last tick's request, which held no parseable
\* pair, and the stored contrast of 130 is still the one applied.
C18_Witness ==
  /\ hist.tick.ran /\ ctl.applied
  /\ hist.tick.in.samples = <<Unparseable>>
  /\ hist.tick.in.contrast = 130
  /\ inbox.toWorker = <<>> /\ inbox.toPage = <<>>
  /\ hist.suggested = NoSuggestion
  /\ doc.udrStyle.contrast = 130

C20_LightnessRule ==
  calc.fn = "invertLightness" =>
    LET before == rgbToHsl(calc.in.rgb)
        after == rgbToHsl(calc.out)
        inverts == IF calc.in.isBackground THEN RLt(RInt(50), before.l)
                   ELSE RLt(before.l, RInt(50))
    IN /\ after.h = before.h
       /\ after.s = before.s
       /\ after.l = IF inverts THEN RSub(RInt(100), before.l) ELSE before.l
       /\ before.l = RInt(50) => calc.out = calc.in.rgb

\* A dark red text colour of lightness 10 has become the red of lightness 90.
C20_Witness ==
  /\ calc.fn = "invertLightness"
  /\ ~calc.in.isBackground
  /\ calc.in.rgb = Rgb(51, 0, 0)
  /\ calc.out = Rgb(255, 204, 204)

\* An explicit dark marker on the root or on body: a matching class, data-theme
\* or theme attribute or computed color-scheme, or a matching color-scheme meta.
DarkMarker(p) ==
  \/ (p.meta # "absent" /\ TestDark(p.meta))
  \/ TestDarkClass(p.htmlClass)
  \/ TestDarkTheme(p.htmlDataTheme) \/ TestDarkTheme(p.htmlTheme)
  \/ TestDark(p.rootColorScheme)
  \/ (p.hasBody /\ (\/ TestDarkClass(p.bodyClass)
                     \/ TestDarkTheme(p.bodyDataTheme) \/ TestDarkTheme(p.bodyTheme)
                     \/ TestDark(p.bodyColorScheme)))

\* The same, with the theme attribute of an element read as its data-theme, or
\* as its theme when it has no data-theme.
EffectiveMarker(p) ==
  \/ (p.meta # "absent" /\ TestDark(p.meta))
  \/ TestDarkClass(p.htmlClass) \/ TestDarkClass(p.bodyClass)
  \/ TestDarkTheme(IF p.htmlDataTheme # "" THEN p.htmlDataTheme ELSE p.htmlTheme)
  \/ TestDarkTheme(IF p.bodyDataTheme # "" THEN p.bodyDataTheme ELSE p.bodyTheme)
  \/ TestDark(p.rootColorScheme) \/ TestDark(p.bodyColorScheme)

\* The mean of the sampled luminances (units of 10^-8) is below 0.2, above 0.2.
MeanBelow(samples) == samples # <<>> /\ Sum(samples) < 20000000 * Len(samples)
MeanAbove(samples) == samples # <<>> /\ Sum(samples) > 20000000 * Len(samples)

C22_LuminanceDecides ==
  (calc.fn = "isAlreadyDarkTheme" /\ ~DarkMarker(calc.in)) =>
    /\ MeanBelow(calc.samples) => calc.out
    /\ MeanAbove(calc.samples) => ~calc.out

\* C23: the step in which a strategy's mutation watcher is told of an inserted
\* element writes no inline style (the element is only enqueued for a later
\* batch of the frame scheduler).
C23_WatcherOnlyEnqueues == [][doc'.n > doc.n => doc'.inline = doc.inline]_vars

\* C24: an insertion under body that happens while the DOM Walker watcher of the
\* current apply cycle is attached leaves every inserted element, descendants
\* included, processed and styled, and no element is ever styled more than
\* once between two resets, however often the mutation records report it.
C24_InsertedProcessedOnce ==
  [][/\ (doc'.n > doc.n /\ dw.mutationObserver) =>
          \A i \in (doc.n + 1)..doc'.n :
            /\ ContentName(i) \in dw'.processedElements
            /\ doc'.inline[ContentName(i)] = "dw"
     /\ \A e \in AllElems : hist'.styled[e] <= 1]_vars

\* A node and its descendant were inserted under the attached watcher, the
\* descendant reported by two mutation records, and both are styled once.
C24_Witness ==
  /\ dw.mutationObserver
  /\ hist.reported = <<"1", "2", "2">>
  /\ hist.styled["1"] = 1 /\ hist.styled["2"] = 1
  /\ doc.inline["1"] = "dw" /\ doc.inline["2"] = "dw"

\* A frame callback ran: the head of the queue is gone, rescheduled or not.
FrameRan == frames # <<>> /\ frames' # frames /\ Len(frames') <= Len(frames)

C26_EarlyDocumentSafe == [][(~doc.head \/ ~doc.body) => ~hist'.raised]_vars

\* C27: the document holds at most one style element for each id the engine
\* uses.
C27_OneStylePerId == \A id \in StyleIds : doc.tags[id] <= 1

\* The optimizer's suggestion has been applied on top of a tick's apply, and one
\* element of each id is attached.
C27_Witness ==
  /\ hist.suggested # NoSuggestion
  /\ ctl.applied /\ ctl.currentMode = "photon-inverter"
  /\ \A id \in StyleIds : doc.tags[id] = 1

\* C28: once a strategy fallback has been taken, exactly one advisory event
\* has been emitted, however often the fallback path was taken.
C28_OneAdvisory == hist.fellBack => hist.advisories = 1

\* C29: func is invoked by wrapper i exactly WAIT after i's last call and with
\* that call's argument; calls less than WAIT apart lead to one invocation
\* and every call that comes at least WAIT after the one before leads to its
\* own (once WAIT has passed since the last call there are as many
\* invocations as such calls, before that one fewer); and a call of one
\* wrapper changes neither the timers nor the invocations of another.
C29_Debounce ==
  [][\A i \in Wrappers :
       /\ popup'.invoked[i] # popup.invoked[i] =>
            /\ popup'.invoked[i] = popup.invoked[i] + 1
            /\ popup'.now = popup.last[i].at + WAIT
            /\ popup'.lastInvoke[i] = [at |-> popup'.now, arg |-> popup.last[i].arg]
       /\ (popup'.last[i].called /\ popup'.now - popup'.last[i].at < WAIT) =>
            popup'.invoked[i] = popup'.bursts[i] - 1
       /\ (popup'.last[i].called /\ popup'.now - popup'.last[i].at > WAIT) =>
            popup'.invoked[i] = popup'.bursts[i]
       /\ ~popup'.last[i].called => popup'.invoked[i] = 0
       /\ popup'.calls[i] # popup.calls[i] =>
            \A j \in Wrappers \ {i} :
              /\ TimersOf(popup', j) = TimersOf(popup, j)
              /\ popup'.invoked[j] = popup.invoked[j]]_vars

\* One slider was moved three times, twice in quick succession and once more
\* after the wait, and its update ran twice, last with the last value; the
\* other slider's update ran once meanwhile.
C29_Witness ==
  /\ popup.calls["contrast"] = 3 /\ popup.bursts["contrast"] = 2
  /\ popup.invoked["contrast"] = 2
  /\ popup.lastInvoke["contrast"].arg = popup.last["contrast"].arg
  /\ popup.invoked["brightness"] = 1

\* The Chroma-Semantic callbacks waiting for their frame, in order.
CsFrames(queue) == SelectSeq(queue, LAMBDA c : c.k = "cs")

\* C30: the handler in which the governor falls back styles no element with
\* Chroma-Semantic, attaches no Chroma-Semantic watcher and schedules no
\* batch: when the fallback is taken in apply no callback is registered, and
\* when it is taken in a frame callback that cycle's callback is gone from the
\* queue, so nothing of the cycle is left to run.
C30_AbortedCycleStops ==
  [][(\E i \in DOMAIN hist'.calls : hist'.calls[i].op = "fallback") =>
       /\ \A e \in AllElems : doc'.inline[e] = "cs" => doc.inline[e] = "cs"
       /\ Len(SelectSeq(doc'.observers, LAMBDA k : k = "cs"))
            <= Len(SelectSeq(doc.observers, LAMBDA k : k = "cs"))
       /\ IF \E i \in DOMAIN hist'.calls : hist'.calls[i].op = "applyCss"
          THEN CsFrames(frames') = CsFrames(frames)
          ELSE CsFrames(frames') = Tail(CsFrames(frames))]_vars

\* The governor fell back in a frame callback after an earlier batch had styled
\* elements: these are styled, a later element is not, nothing is scheduled and
\* no watcher is attached.
C30_Witness ==
  /\ Called("fallback", "chroma-semantic") /\ ~Called("applyCss", "chroma-semantic")
  /\ InlineOf("cs") # {}
  /\ \E e \in Content : doc.inline[e] = "none" /\ e \in {ContentName(i) : i \in 1..doc.n}
  /\ frames = <<>> /\ ~Connected("cs")

\* C31: on a light page without markers, with the extension enabled, the URL
\* not excluded, detection on and the settings unchanged, the theme is applied
\* after every tick.
C31_ReapplyKeepsTheme ==
  (hist.tick.ran /\ hist.tick.consulted) => ctl.applied

\* C32: once every tick started by a settings-updated signal has completed,
\* the theme is applied exactly when the stored settings ask for it on this
\* site, with the stored mode and contrast.
C32_LatestSettingsWin ==
  (store.reads = <<>> /\ hist.tick.ran) =>
    LET eff == effectiveSettingsFor(InputOf(store.settings))
        on == eff.use.enabled /\ ~eff.excluded
    IN /\ ctl.applied = on
       /\ on => /\ ctl.currentMode = eff.use.mode
                /\ doc.udrStyle.contrast = eff.use.contrast

\* The handler that has just run is worker.onmessage.
ReplyHandled == hist.calls # <<>> /\ hist.calls[1].op = "onmessage"

\* C33: a worker reply delivered while the theme is not applied (removeCss has
\* run since the request was posted) changes nothing on the document, in the
\* controller, in DOM Walker's state or in the frame queue.
C33_LateReplyIgnored ==
  [][(~ctl.applied /\ ReplyHandled') =>
       /\ doc' = doc
       /\ ctl' = ctl
       /\ dw' = dw
       /\ frames' = frames]_vars

\* A reply was delivered after a tick had removed the theme.
C33_Witness ==
  /\ ReplyHandled
  /\ ~ctl.applied /\ ctl.worker.created
  /\ hist.tick.ran /\ ~hist.tick.in.enabled
  /\ hist.suggested # NoSuggestion

\* C34: between handlers the controller's records agree with the document:
\* applied, the root's udr-applied attribute and a non-null currentMode go
\* together, and then data-udr-mode equals currentMode and no other strategy
\* has an artifact on the document.
C34_RecordsAgree ==
  /\ ctl.applied = doc.attrApplied
  /\ ctl.applied = (ctl.currentMode # NoMode)
  /\ ctl.applied => /\ doc.attrMode = ctl.currentMode
                    /\ ArtifactOwners \subseteq {ctl.currentMode}

\* C35: an element the page inserts while DOM Walker's initial pass is in
\* progress (callbacks pending, no watcher attached yet) is processed in the
\* end, unless DOM Walker stops being the active mode.
C35_InsertedDuringPassProcessed ==
  \A e \in Content :
    (/\ \E i \in DOMAIN hist.reported : hist.reported[i] = e
     /\ ctl.currentMode = "dom-walker"
     /\ Pending("dw") # {} /\ ~Connected("dw"))
      ~> (e \in dw.processedElements \/ ctl.currentMode # "dom-walker")

\* Nothing is scheduled and no message is in flight.
Quiescent == frames = <<>> /\ inbox.toWorker = <<>> /\ inbox.toPage = <<>>

\* How often a pending Chroma-Semantic callback can still age, at most.
MaxAge == PERFORMANCE_THRESHOLD \div TimeStep + 1

\* The callbacks a cycle still has to run, counting the pending one, and the
\* passages of time before it is over budget.
FrameWeight(c) ==
  LET total == IF c.k = "dw" THEN Len(DwElements(c.n)) ELSE Len(CsElements(c.n, c.body))
      batch == IF c.k = "dw" THEN DwBatchSize ELSE CsBatchSize
      remaining == Max(1, (total - c.idx + batch - 1) \div batch)
      agings == IF c.k = "cs" /\ ~OverBudget(c.elapsed)
                THEN (PERFORMANCE_THRESHOLD - c.elapsed) \div TimeStep + 1 ELSE 0
  IN (MaxAge + 1) * remaining + agings

\* The most one cycle weighs.
CycleWeight == (MaxAge + 1) * (MaxElems + 2) + MaxAge

\* What is left to do: the tick, the requests the worker has not answered, the
\* replies not delivered (each may start one cycle), and the pending callbacks.
Remaining ==
  (IF hist.tick.ran THEN 0 ELSE 2 * CycleWeight + 4)
  + (CycleWeight + 2) * Len(inbox.toWorker)
  + (CycleWeight + 1) * Len(inbox.toPage)
  + Sum([i \in DOMAIN frames |-> FrameWeight(frames[i])])

\* C36: after one tick on a document the page leaves alone every step of the
\* engine lowers what is left to do, so it comes to rest after finitely many
\* steps, and it is at rest exactly when nothing is left; the handler of a
\* worker reply posts no analyze request, and the records of the strategies'
\* own style writes make no watcher pass an element to its styling function.
C36_Quiesces ==
  /\ [][Remaining' < Remaining]_vars
  /\ [](hist.tick.ran => (Quiescent <=> Remaining = 0))
  /\ [][ReplyHandled' => inbox'.toWorker = inbox.toWorker]_vars
  /\ [](hist.watched = 0)

\* The engine is at rest after a reply was applied, and in the last handler a
\* Chroma-Semantic watcher was called with the records of style writes.
C36_Witness ==
  /\ Quiescent
  /\ hist.suggested # NoSuggestion
  /\ Called("records", "chroma-semantic")

\* C37: the per-site entry written for a tab's URL under originFromUrl is found
\* by the content script's look-up under new URL(url).origin, for every http
\* or https URL.
C37_SameEntry == calc.fn = "perSite" => calc.out

\* The value the writers that have written leave in a field: that of the last
\* of them that changed the field, or the value the field had at first.
RECURSIVE ValueLeft(_, _)
ValueLeft(log, f) ==
  IF log = <<>> THEN StoredAtFirst[f]
  ELSE LET last == log[Len(log)]
       IN IF f \in last.changed THEN last.next[f]
          ELSE ValueLeft(SubSeq(log, 1, Len(log) - 1), f)

\* C38: when no writer is between its read and its write, the stored record
\* holds every field as the writers changed it, and no other field has changed.
C38_BothWritesTakeEffect ==
  store.ops = <<>> => \A f \in Fields : store.settings[f] = ValueLeft(store.log, f)

\* The sheets of a list whose rules can be read.
Readable(sheets) == {i \in DOMAIN sheets : sheets[i].readable}

\* The colour variables declared in the style rules of a sheet.
ColourVariables(sheet) ==
  Sum([r \in DOMAIN sheet.rules |->
         IF sheet.rules[r].isStyleRule
         THEN Cardinality({d \in DOMAIN sheet.rules[r].style :
                             /\ StartsWithDashes(sheet.rules[r].style[d].prop)
                             /\ MatchesColour(sheet.rules[r].style[d].value)})
         ELSE 0])

\* C39: variable indexing reads every sheet whose rules can be read, also
\* those after a sheet that cannot be read; the count it returns is that of
\* the readable sheets, and apply goes on to its next phase.
C39_UnreadableSheetSkipped ==
  calc.fn = "processCSSVariables" =>
    /\ calc.out.scanned = Readable(calc.in)
    /\ calc.out.modified =
         Sum([i \in DOMAIN calc.in |->
                IF calc.in[i].readable THEN ColourVariables(calc.in[i]) ELSE 0])
    /\ calc.next = "checkPerformance"

\* A sheet that cannot be read came before a sheet with colour variables, which
\* were counted.
C39_Witness ==
  /\ calc.fn = "processCSSVariables"
  /\ \E i, j \in DOMAIN calc.in :
       i < j /\ ~calc.in[i].readable /\ calc.in[j].readable
             /\ ColourVariables(calc.in[j]) = 2
  /\ calc.out.modified >= 2
====
